---- MODULE Spec2Model ----
(***************************************************************************)
(* kubecopy: the plan/apply copy pipeline.                                 *)
(*                                                                         *)
(* Objects are schemaless trees: a mapping is a TLA+ function from string  *)
(* keys to values, a sequence is a TLA+ sequence.  A cluster is a function *)
(* from keys (gvr, ns, name) to objects.  The two dynamic clients address  *)
(* clusters by id; a copy inside one cluster has both clients on the same  *)
(* id.  Every API call the Copier issues is appended to calls.             *)
(***************************************************************************)
EXTENDS Integers, Sequences, FiniteSets, TLC

\* ---------------------------------------------------------------- bounds
\* Longest ref list handed to PlanAll (primary plus dependencies).
MaxRefs == 2

\* Most sanitizer calls made on one object in a row.
MaxRuns == 2

\* ------------------------------------------------------- tree primitives
Has(m, k) == k \in DOMAIN m

Del(m, k) == [x \in (DOMAIN m) \ {k} |-> m[x]]

Put(m, k, v) == [x \in (DOMAIN m) \cup {k} |-> IF x = k THEN v ELSE m[x]]

EmptyMap == [x \in {} |-> ""]

RECURSIVE DelAll(_, _)
DelAll(m, ks) ==
    IF ks = <<>> THEN m ELSE DelAll(Del(m, Head(ks)), Tail(ks))

RECURSIVE Flatten(_)
Flatten(ss) ==
    IF ss = <<>> THEN <<>> ELSE Head(ss) \o Flatten(Tail(ss))

\* Keeps the first occurrence of every element, in order (the seen-map idiom).
RECURSIVE Dedup(_, _)
Dedup(s, seen) ==
    IF s = <<>> THEN <<>>
    ELSE IF Head(s) \in seen THEN Dedup(Tail(s), seen)
    ELSE <<Head(s)>> \o Dedup(Tail(s), seen \cup {Head(s)})

\* The field f of mapping m when present, otherwise the default d.
Field(m, f, d) == IF Has(m, f) THEN m[f] ELSE d

\* unstructured accessors
GetKind(o) == Field(o, "kind", "")

GetName(o) == IF Has(o, "metadata") THEN Field(o.metadata, "name", "") ELSE ""

GetNamespace(o) ==
    IF Has(o, "metadata") THEN Field(o.metadata, "namespace", "") ELSE ""

\* SetNamespace: an empty namespace removes the field.
SetNamespace(o, ns) ==
    LET md == Field(o, "metadata", EmptyMap) IN
    IF ns = "" THEN Put(o, "metadata", Del(md, "namespace"))
    ELSE Put(o, "metadata", Put(md, "namespace", ns))

SetName(o, n) ==
    LET md == Field(o, "metadata", EmptyMap) IN
    IF n = "" THEN Put(o, "metadata", Del(md, "name"))
    ELSE Put(o, "metadata", Put(md, "name", n))

\* ------------------------------------------------------------ sanitizer
\* Faulty variant: generation is left in place.
stripMetadataFieldsNoGeneration ==
    <<"uid", "resourceVersion", "creationTimestamp", "selfLink",
      "managedFields">>

stripMetadataFields ==
    <<"uid", "resourceVersion", "creationTimestamp", "generation",
      "selfLink", "managedFields">>

LastApplied == "kubectl.kubernetes.io/last-applied-configuration"

\* Strips the annotation; an annotations mapping left empty is removed.
StripAnnotations(md) ==
    IF Has(md, "annotations")
    THEN LET a == Del(md.annotations, LastApplied) IN
         IF DOMAIN a = {} THEN Del(md, "annotations")
         ELSE Put(md, "annotations", a)
    ELSE md

\* The namespace is written as given; the name only when one was supplied.
SanitizeCommon(obj, targetNamespace, targetName) ==
    IF ~Has(obj, "metadata") THEN obj
    ELSE
      LET md1 == DelAll(obj.metadata, stripMetadataFields)
          md2 == Del(md1, "ownerReferences")
          md3 == StripAnnotations(md2)
          o1  == Del(Put(obj, "metadata", md3), "status")
          o2  == SetNamespace(o1, targetNamespace)
      IN IF targetName # "" THEN SetName(o2, targetName) ELSE o2

Warning(res, msg) == [Resource |-> res, Message |-> msg]

\* Faulty variant: only the first port loses its nodePort.
ClearNodePortsFirstOnly(ports) ==
    [i \in 1..Len(ports) |->
       IF i = 1 THEN Del(ports[i], "nodePort") ELSE ports[i]]

\* Ports without their nodePort key.
ClearNodePorts(ports) ==
    [i \in 1..Len(ports) |-> Del(ports[i], "nodePort")]

NodePortWarnings(id, ports) ==
    Flatten([i \in 1..Len(ports) |->
        IF Has(ports[i], "nodePort")
        THEN <<Warning(id, <<"removed nodePort", ports[i].nodePort>>)>>
        ELSE <<>>])

\* Result of a kind sanitizer: the mutated object and its warnings.
sanitizeService(obj) ==
    IF ~Has(obj, "spec") THEN [obj |-> obj, warnings |-> <<>>]
    ELSE
      LET id    == <<"Service", GetName(obj)>>
          spec  == obj.spec
          ip    == Field(spec, "clusterIP", "")
          resetIP == ip # "" /\ ip # "None"
          s1    == IF resetIP THEN Put(spec, "clusterIP", "") ELSE spec
          w1    == IF resetIP
                   THEN <<Warning(id, <<"reset clusterIP", ip>>)>> ELSE <<>>
          ips   == Field(spec, "clusterIPs", <<>>)
          s2    == IF Len(ips) > 0 /\ ~(Len(ips) = 1 /\ ips[1] = "None")
                   THEN Put(s1, "clusterIPs", <<>>) ELSE s1
          ports == Field(spec, "ports", <<>>)
          s3    == IF Has(spec, "ports")
                   THEN Put(s2, "ports", ClearNodePorts(ports)) ELSE s2
          w3    == NodePortWarnings(id, ports)
          lbIP  == Field(spec, "loadBalancerIP", "")
          w4    == IF lbIP # ""
                   THEN <<Warning(id, <<"loadBalancerIP is set", lbIP>>)>>
                   ELSE <<>>
          w5    == IF Field(spec, "type", "") = "ExternalName"
                   THEN <<Warning(id, <<"ExternalName service">>)>> ELSE <<>>
          s6    == Del(s3, "healthCheckNodePort")
      IN [obj |-> Put(obj, "spec", s6), warnings |-> w1 \o w3 \o w4 \o w5]

\* strings.HasPrefix(name, "kube-api-access-"), strings.Contains(name,
\* "-token-") and strings.Contains(name, "-dockercfg-"), tabulated on the
\* names the modelled objects carry.
IsKubeAPIAccess(name) ==
    name \in {"kube-api-access-x7k2p", "kube-api-access-q1w2e"}

ContainsToken(name) == name \in {"builder-token-abc12"}

ContainsDockercfg(name) == name \in {"builder-dockercfg-zz9"}

\* Faulty variant: the mounts of the init containers are left alone.
CleanMountsContainersOnly(spec, field, removed) ==
    IF ~Has(spec, field) \/ field = "initContainers" THEN spec
    ELSE
      LET keep(m) == Field(m, "name", "") \notin removed
          clean(c) == IF Has(c, "volumeMounts")
                      THEN Put(c, "volumeMounts", SelectSeq(c.volumeMounts, keep))
                      ELSE c
      IN Put(spec, field, [k \in 1..Len(spec[field]) |-> clean(spec[field][k])])

\* volumeMounts of every container under field without the removed names.
CleanMounts(spec, field, removed) ==
    IF ~Has(spec, field) THEN spec
    ELSE
      LET keep(m) == Field(m, "name", "") \notin removed
          clean(c) == IF Has(c, "volumeMounts")
                      THEN Put(c, "volumeMounts", SelectSeq(c.volumeMounts, keep))
                      ELSE c
      IN Put(spec, field, [k \in 1..Len(spec[field]) |-> clean(spec[field][k])])

\* Faulty variant: only the first auto-injected volume is removed.
sanitizeSATokenVolumesFirstOnly(spec, id) ==
    IF ~Has(spec, "volumes") THEN [spec |-> spec, warnings |-> <<>>]
    ELSE
      LET vols    == spec.volumes
          auto(v) == IsKubeAPIAccess(Field(v, "name", ""))
          all     == SelectSeq(vols, auto)
          gone    == IF all = <<>> THEN <<>> ELSE <<Head(all)>>
          removed == {gone[k].name : k \in 1..Len(gone)}
          keep(v) == Field(v, "name", "") \notin removed
          ws      == [k \in 1..Len(gone) |->
                        Warning(id, <<"removed auto-injected volume",
                                      gone[k].name>>)]
          s1      == Put(spec, "volumes", SelectSeq(vols, keep))
      IN IF removed = {} THEN [spec |-> spec, warnings |-> <<>>]
         ELSE [spec |-> CleanMounts(CleanMounts(s1, "containers", removed),
                                    "initContainers", removed),
               warnings |-> ws]

\* Returns the pod spec and the warnings.
sanitizeSATokenVolumes(spec, id) ==
    IF ~Has(spec, "volumes") THEN [spec |-> spec, warnings |-> <<>>]
    ELSE
      LET vols    == spec.volumes
          auto(v) == IsKubeAPIAccess(Field(v, "name", ""))
          keep(v) == ~auto(v)
          gone    == SelectSeq(vols, auto)
          removed == {gone[k].name : k \in 1..Len(gone)}
          ws      == [k \in 1..Len(gone) |->
                        Warning(id, <<"removed auto-injected volume",
                                      gone[k].name>>)]
          s1      == Put(spec, "volumes", SelectSeq(vols, keep))
      IN IF removed = {} THEN [spec |-> spec, warnings |-> <<>>]
         ELSE [spec |-> CleanMounts(CleanMounts(s1, "containers", removed),
                                    "initContainers", removed),
               warnings |-> ws]

sanitizePod(obj) ==
    IF ~Has(obj, "spec") THEN [obj |-> obj, warnings |-> <<>>]
    ELSE
      LET id   == <<"Pod", GetName(obj)>>
          node == Field(obj.spec, "nodeName", "")
          s1   == IF node # "" THEN Del(obj.spec, "nodeName") ELSE obj.spec
          w1   == IF node # ""
                  THEN <<Warning(id, <<"removed nodeName", node>>)>> ELSE <<>>
          r    == sanitizeSATokenVolumes(s1, id)
      IN [obj |-> Put(obj, "spec", r.spec), warnings |-> w1 \o r.warnings]

pvAnnotations ==
    {"pv.kubernetes.io/bind-completed", "pv.kubernetes.io/bound-by-controller",
     "volume.beta.kubernetes.io/storage-provisioner",
     "volume.kubernetes.io/storage-provisioner",
     "volume.kubernetes.io/selected-node"}

\* SetAnnotations: nil removes the field.
SetAnnotations(o, a) ==
    LET md == Field(o, "metadata", EmptyMap) IN
    IF DOMAIN a = {} THEN Put(o, "metadata", Del(md, "annotations"))
    ELSE Put(o, "metadata", Put(md, "annotations", a))

sanitizePVC(obj) ==
    IF ~Has(obj, "spec") THEN [obj |-> obj, warnings |-> <<>>]
    ELSE
      LET id  == <<"PersistentVolumeClaim", GetName(obj)>>
          vn  == Field(obj.spec, "volumeName", "")
          o1  == IF vn # "" THEN Put(obj, "spec", Del(obj.spec, "volumeName"))
                 ELSE obj
          w1  == IF vn # ""
                 THEN <<Warning(id, <<"removed volumeName", vn>>)>> ELSE <<>>
          ann == Field(Field(obj, "metadata", EmptyMap), "annotations",
                       EmptyMap)
          changed == (DOMAIN ann) \cap pvAnnotations # {}
          left == [k \in (DOMAIN ann) \ pvAnnotations |-> ann[k]]
      IN IF changed
         THEN [obj |-> SetAnnotations(o1, left),
               warnings |-> w1 \o <<Warning(id,
                                  <<"removed PV binding annotations">>)>>]
         ELSE [obj |-> o1, warnings |-> w1]

\* The list under key without the entries Auto names; an emptied list is
\* removed.  Returns the object and the removed names.
DropAuto(obj, key, marker) ==
    LET auto(e) == IF marker = "-token-"
                   THEN ContainsToken(Field(e, "name", ""))
                   ELSE ContainsDockercfg(Field(e, "name", ""))
        keep(e) == ~auto(e)
        gone == SelectSeq(obj[key], auto)
        kept == SelectSeq(obj[key], keep)
    IN [obj |-> IF kept = <<>> THEN Del(obj, key) ELSE Put(obj, key, kept),
        names |-> [k \in 1..Len(gone) |-> gone[k].name]]

sanitizeServiceAccount(obj) ==
    LET id == <<"ServiceAccount", GetName(obj)>>
        r1 == IF Has(obj, "secrets") /\ Len(obj.secrets) > 0
              THEN DropAuto(obj, "secrets", "-token-")
              ELSE [obj |-> obj, names |-> <<>>]
        r2 == IF Has(r1.obj, "imagePullSecrets")
              THEN DropAuto(r1.obj, "imagePullSecrets", "-dockercfg-")
              ELSE [obj |-> r1.obj, names |-> <<>>]
    IN [obj |-> r2.obj,
        warnings |->
          [k \in 1..Len(r1.names) |->
             Warning(id, <<"removed token secret reference", r1.names[k]>>)]
          \o [k \in 1..Len(r2.names) |->
             Warning(id, <<"removed imagePullSecret reference",
                           r2.names[k]>>)]]

\* Warnings only: a hardcoded host per rule, then every TLS host.
sanitizeIngress(obj) ==
    IF ~Has(obj, "spec") \/ ~Has(Field(obj, "spec", EmptyMap), "rules")
    THEN [obj |-> obj, warnings |-> <<>>]
    ELSE
      LET id    == <<"Ingress", GetName(obj)>>
          rules == obj.spec.rules
          tls   == Field(obj.spec, "tls", <<>>)
          hosts(t) == Field(t, "hosts", <<>>)
      IN [obj |-> obj,
          warnings |->
            Flatten([k \in 1..Len(rules) |->
               IF Field(rules[k], "host", "") # ""
               THEN <<Warning(id, <<"hardcoded host", rules[k].host>>)>>
               ELSE <<>>])
            \o Flatten([k \in 1..Len(tls) |->
               [h \in 1..Len(hosts(tls[k])) |->
                  Warning(id, <<"TLS host", hosts(tls[k])[h]>>)]])]

\* The Job sanitizer the README tabulates: the generated selector and the
\* controller-uid labels are removed, on the Job and on its pod template.
sanitizeJob(obj) ==
    LET uids == <<"controller-uid", "batch.kubernetes.io/controller-uid">>
        strip(md) == IF Has(md, "labels")
                     THEN Put(md, "labels", DelAll(md.labels, uids)) ELSE md
        o1 == IF Has(obj, "metadata")
              THEN Put(obj, "metadata", strip(obj.metadata)) ELSE obj
        sp == Field(o1, "spec", EmptyMap)
        s1 == Del(sp, "selector")
        tp == Field(s1, "template", EmptyMap)
        s2 == IF Has(tp, "metadata")
              THEN Put(s1, "template", Put(tp, "metadata", strip(tp.metadata)))
              ELSE s1
    IN [obj |-> IF Has(o1, "spec") THEN Put(o1, "spec", s2) ELSE o1,
        warnings |-> <<>>]

\* Kinds with a registered sanitizer.
Registry ==
    {"Service", "Pod", "PersistentVolumeClaim", "ServiceAccount", "Ingress",
     "Job"}

\* Registry[kind].Sanitize(obj)
Sanitize(kind, obj) ==
    CASE kind = "Service" -> sanitizeService(obj)
      [] kind = "Pod" -> sanitizePod(obj)
      [] kind = "PersistentVolumeClaim" -> sanitizePVC(obj)
      [] kind = "ServiceAccount" -> sanitizeServiceAccount(obj)
      [] kind = "Ingress" -> sanitizeIngress(obj)
      [] kind = "Job" -> sanitizeJob(obj)

\* Faulty variant: the kind sanitizer is never looked up.
RunCommonOnly(obj, targetNamespace, targetName) ==
    [obj |-> SanitizeCommon(obj, targetNamespace, targetName),
     warnings |-> <<>>]

\* Universal sanitizer first, then the kind sanitizer when one is registered.
Run(obj, targetNamespace, targetName) ==
    LET c == SanitizeCommon(obj, targetNamespace, targetName) IN
    IF GetKind(c) \in Registry
    THEN Sanitize(GetKind(c), c)
    ELSE [obj |-> c, warnings |-> <<>>]

\* -------------------------------------------------- reference extractor
extractPodSpec(obj) ==
    LET kind == GetKind(obj)
        spec == Field(obj, "spec", EmptyMap)
        tmpl == Field(spec, "template", EmptyMap)
        jobT == Field(Field(spec, "jobTemplate", EmptyMap), "spec", EmptyMap)
    IN CASE kind = "Pod" -> spec
         [] kind \in {"Deployment", "StatefulSet", "DaemonSet", "ReplicaSet",
                      "Job"} -> Field(tmpl, "spec", EmptyMap)
         [] kind = "CronJob" ->
                Field(Field(jobT, "template", EmptyMap), "spec", EmptyMap)
         [] OTHER -> EmptyMap

\* name under m[outer][inner], as a one-element sequence, when present.
NameAt(m, outer, inner) ==
    IF Has(m, outer) /\ Has(m[outer], inner) THEN <<m[outer][inner]>> ELSE <<>>

\* Names under volumes[*].<volKey>.<volName> and
\* volumes[*].projected.sources[*].<projKey>.name, volume by volume.
VolumeNames(podSpec, volKey, volName, projKey) ==
    LET vols == Field(podSpec, "volumes", <<>>) IN
    Flatten([i \in 1..Len(vols) |->
        NameAt(vols[i], volKey, volName) \o
        (LET srcs == Field(Field(vols[i], "projected", EmptyMap),
                           "sources", <<>>) IN
         Flatten([j \in 1..Len(srcs) |-> NameAt(srcs[j], projKey, "name")]))])

\* Names under <field>[*].envFrom[*].<fromKey>.name and
\* <field>[*].env[*].valueFrom.<keyRef>.name, container by container.
ContainerNames(podSpec, field, fromKey, keyRef) ==
    LET cs == Field(podSpec, field, <<>>) IN
    Flatten([i \in 1..Len(cs) |->
        (LET ef == Field(cs[i], "envFrom", <<>>) IN
         Flatten([j \in 1..Len(ef) |-> NameAt(ef[j], fromKey, "name")])) \o
        (LET ev == Field(cs[i], "env", <<>>) IN
         Flatten([j \in 1..Len(ev) |->
            NameAt(Field(ev[j], "valueFrom", EmptyMap), keyRef, "name")]))])

extractConfigMapRefs(podSpec) ==
    Dedup(VolumeNames(podSpec, "configMap", "name", "configMap")
          \o ContainerNames(podSpec, "containers", "configMapRef",
                            "configMapKeyRef")
          \o ContainerNames(podSpec, "initContainers", "configMapRef",
                            "configMapKeyRef"), {})

extractSecretRefs(podSpec) ==
    Dedup(VolumeNames(podSpec, "secret", "secretName", "secret")
          \o ContainerNames(podSpec, "containers", "secretRef", "secretKeyRef")
          \o ContainerNames(podSpec, "initContainers", "secretRef",
                            "secretKeyRef"), {})

extractPVCRefs(podSpec) ==
    LET vols == Field(podSpec, "volumes", <<>>) IN
    Dedup(Flatten([i \in 1..Len(vols) |->
        NameAt(vols[i], "persistentVolumeClaim", "claimName")]), {})

extractServiceAccountRef(podSpec) ==
    IF Has(podSpec, "serviceAccountName") THEN podSpec.serviceAccountName
    ELSE Field(podSpec, "serviceAccount", "")

\* ------------------------------------------------------------ the world
Key(gvr, ns, name) == [gvr |-> gvr, ns |-> ns, name |-> name]

SourceNamespace == "ns-a"

ObjWeb ==
    [apiVersion |-> "apps/v1", kind |-> "Deployment",
     metadata |-> [name |-> "web", namespace |-> "ns-a", uid |-> "u-web",
                   resourceVersion |-> "41", generation |-> 3,
                   annotations |-> (LastApplied :> "{}")],
     spec |-> [template |->
                [metadata |-> [labels |-> [app |-> "web"]],
                 spec |-> [volumes |->
                             <<[name |-> "conf", configMap |-> [name |-> "cfg"]],
                               [name |-> "cert",
                                secret |-> [secretName |-> "tls"]]>>,
                           containers |->
                             <<[name |-> "c",
                                envFrom |->
                                  <<[configMapRef |-> [name |-> "cfg"]]>>]>>,
                           serviceAccountName |-> "default"]]],
     status |-> [replicas |-> 1]]

ObjCfg ==
    [apiVersion |-> "v1", kind |-> "ConfigMap",
     metadata |-> [name |-> "cfg", namespace |-> "ns-a", uid |-> "u-cfg",
                   resourceVersion |-> "7"],
     data |-> [k |-> "v"]]

ObjS1 ==
    [apiVersion |-> "v1", kind |-> "Service",
     metadata |-> [name |-> "s1", namespace |-> "ns-a", uid |-> "u-s1",
                   resourceVersion |-> "9"],
     spec |-> [clusterIP |-> "10.0.0.1", clusterIPs |-> <<"10.0.0.1">>,
               loadBalancerIP |-> "1.2.3.4",
               ports |-> <<[port |-> 80, nodePort |-> 31000]>>,
               selector |-> [app |-> "web"]],
     status |-> [loadBalancer |-> EmptyMap]]

ObjFast ==
    [apiVersion |-> "storage.k8s.io/v1", kind |-> "StorageClass",
     metadata |-> [name |-> "fast", uid |-> "u-fast",
                   resourceVersion |-> "3"],
     provisioner |-> "example.com/disk"]

\* The source cluster: a Deployment with its ConfigMap (its Secret is
\* missing), a Service and a cluster-scoped StorageClass.
SourceWorld ==
    (Key("deployments", "ns-a", "web") :> ObjWeb)
    @@ (Key("configmaps", "ns-a", "cfg") :> ObjCfg)
    @@ (Key("services", "ns-a", "s1") :> ObjS1)
    @@ (Key("storageclasses", "", "fast") :> ObjFast)

Stub(kind, ns, name) ==
    [kind |-> kind,
     metadata |-> IF ns = "" THEN [name |-> name]
                  ELSE [name |-> name, namespace |-> ns]]

EmptyWorld == [k \in {} |-> EmptyMap]

\* A separate target cluster that already holds same-named objects.
BusyWorld ==
    (Key("deployments", "ns-b", "web") :> Stub("Deployment", "ns-b", "web"))
    @@ (Key("deployments", "ns-b", "web2") :> Stub("Deployment", "ns-b", "web2"))
    @@ (Key("deployments", "ns-a", "web") :> Stub("Deployment", "ns-a", "web"))
    @@ (Key("services", "ns-b", "s1") :> Stub("Service", "ns-b", "s1"))
    @@ (Key("configmaps", "ns-b", "cfg") :> Stub("ConfigMap", "ns-b", "cfg"))
    @@ (Key("storageclasses", "", "fast") :> Stub("StorageClass", "", "fast"))

TargetWorlds == {EmptyWorld, BusyWorld}

Ref(gvr, kind, name, namespaced) ==
    [GVR |-> gvr, Kind |-> kind, Name |-> name,
     Namespace |-> SourceNamespace, Namespaced |-> namespaced]

\* Refs a caller may hand to the Copier; "gone" does not exist in the source.
RefUniverse ==
    {Ref("deployments", "Deployment", "web", TRUE),
     Ref("services", "Service", "s1", TRUE),
     Ref("storageclasses", "StorageClass", "fast", FALSE),
     Ref("deployments", "Deployment", "gone", TRUE)}

\* Every list over the universe, and the list a recursive copy of the
\* Deployment builds: the Deployment, then the ConfigMap it mounts.
RefLists ==
    UNION {[1..n -> RefUniverse] : n \in 1..MaxRefs}
    \cup {<<Ref("deployments", "Deployment", "web", TRUE),
            Ref("configmaps", "ConfigMap", "cfg", TRUE)>>}

Policies == {"skip", "warn", "overwrite"}

TargetNamespaces == {"ns-a", "ns-b"}

TargetNames == {"", "web2"}

\* Verbs the target cluster refuses (RBAC) for the whole run.
DeniedChoices == {{}, {"get"}, {"delete"}, {"create"}}

SrcId == "A"

ClusterIds == {"A", "B"}

\* ------------------------------------------- the world Discover walks
ObjTls ==
    [apiVersion |-> "v1", kind |-> "Secret",
     metadata |-> [name |-> "tls", namespace |-> "ns-a"],
     data |-> [crt |-> "x"]]

ObjS2 ==
    [apiVersion |-> "v1", kind |-> "Service",
     metadata |-> [name |-> "s2", namespace |-> "ns-a"],
     spec |-> [clusterIP |-> "None", selector |-> [app |-> "web"]]]

ObjS3 ==
    [apiVersion |-> "v1", kind |-> "Service",
     metadata |-> [name |-> "s3", namespace |-> "ns-a"],
     spec |-> [clusterIP |-> "None", selector |-> [app |-> "db"]]]

\* Names s2 as its default backend and s1 under a rule.
ObjIng ==
    [apiVersion |-> "networking.k8s.io/v1", kind |-> "Ingress",
     metadata |-> [name |-> "ing", namespace |-> "ns-a"],
     spec |-> [defaultBackend |-> [service |-> [name |-> "s2"]],
               rules |-> <<[host |-> "web.example.com",
                            http |-> [paths |->
                              <<[path |-> "/",
                                 backend |->
                                   [service |-> [name |-> "s1"]]]>>]]>>]]

ObjIng2 ==
    [apiVersion |-> "networking.k8s.io/v1", kind |-> "Ingress",
     metadata |-> [name |-> "ing2", namespace |-> "ns-a"],
     spec |-> [defaultBackend |-> [service |-> [name |-> "s3"]]]]

ObjHpa ==
    [apiVersion |-> "autoscaling/v2", kind |-> "HorizontalPodAutoscaler",
     metadata |-> [name |-> "hpa", namespace |-> "ns-a"],
     spec |-> [scaleTargetRef |-> [kind |-> "Deployment", name |-> "web"]]]

ObjHpa2 ==
    [apiVersion |-> "autoscaling/v2", kind |-> "HorizontalPodAutoscaler",
     metadata |-> [name |-> "hpa2", namespace |-> "ns-a"],
     spec |-> [scaleTargetRef |-> [kind |-> "Deployment", name |-> "other"]]]

\* A Pod with the Deployment's labels that mounts the same ConfigMap.
ObjP1 ==
    [apiVersion |-> "v1", kind |-> "Pod",
     metadata |-> [name |-> "p1", namespace |-> "ns-a",
                   labels |-> [app |-> "web"]],
     spec |-> [nodeName |-> "node-1",
               volumes |->
                 <<[name |-> "conf", configMap |-> [name |-> "cfg"]]>>,
               containers |-> <<[name |-> "c"]>>]]

\* The source with Services, Ingresses and HPAs around the Deployment; s4
\* selects on a label the pods lack, with the empty value, and s5 has an
\* empty selector.
WiredWorld ==
    SourceWorld
    @@ (Key("services", "ns-a", "s2") :> ObjS2)
    @@ (Key("services", "ns-a", "s3") :> ObjS3)
    @@ (Key("services", "ns-a", "s4") :>
          [apiVersion |-> "v1", kind |-> "Service",
           metadata |-> [name |-> "s4", namespace |-> "ns-a"],
           spec |-> [selector |-> ("app" :> "web") @@ ("tier" :> "")]])
    @@ (Key("services", "ns-a", "s5") :>
          [apiVersion |-> "v1", kind |-> "Service",
           metadata |-> [name |-> "s5", namespace |-> "ns-a"],
           spec |-> [selector |-> EmptyMap]])
    @@ (Key("ingresses", "ns-a", "ing") :> ObjIng)
    @@ (Key("ingresses", "ns-a", "ing2") :> ObjIng2)
    @@ (Key("horizontalpodautoscalers", "ns-a", "hpa") :> ObjHpa)
    @@ (Key("horizontalpodautoscalers", "ns-a", "hpa2") :> ObjHpa2)
    @@ (Key("pods", "ns-a", "p1") :> ObjP1)

DiscoverWorlds ==
    {SourceWorld, WiredWorld,
     WiredWorld @@ (Key("secrets", "ns-a", "tls") :> ObjTls)}

\* Object names of the source, in the order a list returns them.
SourceNames ==
    <<"cfg", "hpa", "hpa2", "ing", "ing2", "p1", "s1", "s2", "s3", "s4",
      "s5", "tls", "web">>

\* The primary as Run resolves it: resource, kind, name, source namespace.
PrimaryRef(gvr, kind, name) ==
    [GVR |-> gvr, Kind |-> kind, Name |-> name,
     Namespace |-> SourceNamespace, Namespaced |-> FALSE]

Primaries ==
    {PrimaryRef("deployments", "Deployment", "web"),
     PrimaryRef("services", "Service", "s1"),
     PrimaryRef("pods", "Pod", "p1"),
     PrimaryRef("configmaps", "ConfigMap", "cfg"),
     PrimaryRef("deployments", "Deployment", "gone")}

\* ------------------------------------------------- Options.Complete
\* A command-line argument is a sequence of pieces, "/" being a piece of
\* its own; the empty string is the empty sequence.  Complete returns its
\* error ("" is nil) and the fields it has set.
Complete(args, toNS, toName, toContext, onConflict, output) ==
    LET arg    == args[1]
        slash  == {k \in 1..Len(arg) : arg[k] = "/"}
        at     == IF slash = {} THEN 0
                  ELSE CHOOSE k \in slash : \A m \in slash : k <= m
        parts  == IF at = 0 THEN <<arg>>
                  ELSE <<SubSeq(arg, 1, at - 1), SubSeq(arg, at + 1, Len(arg))>>
        bad    == /\ Len(args) # 2
                  /\ (Len(parts) # 2 \/ parts[1] = <<>> \/ parts[2] = <<>>)
        ToLower(t) == [k \in 1..Len(t) |->
                         IF t[k] = "Deployment" THEN "deployment" ELSE t[k]]
        kind   == ToLower(IF Len(args) = 2 THEN args[1] ELSE parts[1])
        name   == IF Len(args) = 2 THEN args[2] ELSE parts[2]
        ns     == IF toNS = "" THEN SourceNamespace ELSE toNS
    IN IF bad
       THEN [err |-> "invalid resource argument", kind |-> <<>>,
             name |-> <<>>, ToNamespace |-> toNS]
       ELSE [kind |-> kind, name |-> name, ToNamespace |-> ns,
             err |->
               IF ns = SourceNamespace /\ toName = "" /\ toContext = ""
               THEN "same namespace requires --to-name"
               ELSE IF onConflict \notin {"skip", "warn", "overwrite"}
               THEN "invalid --on-conflict"
               ELSE IF output \notin {"table", "yaml", "json"}
               THEN "invalid --output"
               ELSE ""]

\* The command line of a run that resolved the primary: "<resource> <name>",
\* accepted, clients built.
CompletedFor(ref) ==
    [args |-> <<<<ref.GVR>>, <<ref.Name>>>>, Output |-> "table",
     kind |-> <<ref.GVR>>, name |-> <<ref.Name>>, err |-> "",
     clients |-> TRUE]

\* Calls the source refuses for the whole walk.
SrcFailChoices ==
    {{}, {<<"get", "deployments">>}, {<<"get", "configmaps">>},
     {<<"list", "services">>}, {<<"list", "ingresses">>},
     {<<"list", "horizontalpodautoscalers/v2">>},
     {<<"list", "horizontalpodautoscalers/v2">>,
      <<"list", "horizontalpodautoscalers/v1">>}}

\* ------------------------------------------ inputs of the sanitizers
\* A Pod as admission left it: scheduled, with two injected token volumes
\* mounted next to a ConfigMap.
ObjPodTok ==
    [apiVersion |-> "v1", kind |-> "Pod",
     metadata |-> [name |-> "p2", namespace |-> "ns-a", uid |-> "u-p2",
                   resourceVersion |-> "12",
                   ownerReferences |-> <<[kind |-> "ReplicaSet",
                                          name |-> "web-5d"]>>],
     spec |-> [nodeName |-> "node-1",
               volumes |->
                 <<[name |-> "kube-api-access-x7k2p",
                    projected |-> [sources |-> <<>>]],
                   [name |-> "conf", configMap |-> [name |-> "cfg"]],
                   [name |-> "kube-api-access-q1w2e",
                    projected |-> [sources |-> <<>>]]>>,
               containers |->
                 <<[name |-> "c",
                    volumeMounts |->
                      <<[name |-> "kube-api-access-x7k2p"],
                        [name |-> "conf"]>>]>>,
               initContainers |->
                 <<[name |-> "init",
                    volumeMounts |->
                      <<[name |-> "kube-api-access-q1w2e"]>>]>>],
     status |-> [phase |-> "Running"]]

ObjPvc ==
    [apiVersion |-> "v1", kind |-> "PersistentVolumeClaim",
     metadata |-> [name |-> "data", namespace |-> "ns-a", uid |-> "u-data",
                   annotations |->
                     ("pv.kubernetes.io/bind-completed" :> "yes")
                     @@ (LastApplied :> "{}")],
     spec |-> [volumeName |-> "pv-1", storageClassName |-> "fast"],
     status |-> [phase |-> "Bound"]]

\* A claim that keeps an annotation of its own.
ObjPvcKept ==
    [apiVersion |-> "v1", kind |-> "PersistentVolumeClaim",
     metadata |-> [name |-> "logs", namespace |-> "ns-a",
                   annotations |->
                     ("volume.kubernetes.io/selected-node" :> "node-1")
                     @@ ("team" :> "core")],
     spec |-> [storageClassName |-> "fast"]]

ObjSa ==
    [apiVersion |-> "v1", kind |-> "ServiceAccount",
     metadata |-> [name |-> "builder", namespace |-> "ns-a",
                   uid |-> "u-builder", creationTimestamp |-> "t0"],
     secrets |-> <<[name |-> "builder-token-abc12"], [name |-> "manual"]>>,
     imagePullSecrets |-> <<[name |-> "builder-dockercfg-zz9"]>>]

\* Every entry is auto-generated, or the list is empty to begin with.
ObjSaAuto ==
    [apiVersion |-> "v1", kind |-> "ServiceAccount",
     metadata |-> [name |-> "builder", namespace |-> "ns-a"],
     secrets |-> <<[name |-> "builder-token-abc12"]>>,
     imagePullSecrets |-> <<>>]

\* An object without a metadata mapping.
ObjBare ==
    [apiVersion |-> "v1", kind |-> "ConfigMap", data |-> [k |-> "v"],
     status |-> [seen |-> TRUE]]

ObjBareService ==
    [apiVersion |-> "v1", kind |-> "Service",
     spec |-> [clusterIP |-> "10.0.0.9",
               ports |-> <<[port |-> 80, nodePort |-> 31001]>>],
     status |-> [loadBalancer |-> EmptyMap]]

FullMeta ==
    [name |-> "cfg", namespace |-> "ns-a", uid |-> "u-1",
     resourceVersion |-> "5", creationTimestamp |-> "t0", generation |-> 2,
     selfLink |-> "/api/v1/x", managedFields |-> <<[manager |-> "kubectl"]>>,
     ownerReferences |-> <<[kind |-> "Deployment", name |-> "web"]>>,
     labels |-> [app |-> "web"]]

\* No annotations field, or one of these mappings under it.
AnnotationChoices ==
    {<<>>, <<EmptyMap>>, <<(LastApplied :> "{}")>>,
     <<(LastApplied :> "{}") @@ ("team" :> "core")>>, <<("team" :> "core")>>}

MetaVariant(fields, ann, withStatus) ==
    LET md0 == [k \in {"name", "labels"} \cup fields |-> FullMeta[k]]
        md  == IF ann = <<>> THEN md0 ELSE Put(md0, "annotations", ann[1])
        o   == [kind |-> "ConfigMap", metadata |-> md, data |-> [k |-> "v"]]
    IN IF withStatus THEN Put(o, "status", [ok |-> TRUE]) ELSE o

\* ConfigMaps whose metadata holds any mix of server-set fields, with or
\* without annotations and a status.
MetaVariants ==
    {MetaVariant(fs, an, st) :
       fs \in SUBSET {"uid", "generation", "managedFields", "ownerReferences"},
       an \in AnnotationChoices, st \in BOOLEAN}

\* A Job as its controller left it.
ObjJob ==
    [apiVersion |-> "batch/v1", kind |-> "Job",
     metadata |-> [name |-> "migrate", namespace |-> "ns-a", uid |-> "u-job",
                   labels |-> ("controller-uid" :> "u-job")
                              @@ ("batch.kubernetes.io/controller-uid"
                                    :> "u-job")
                              @@ ("app" :> "migrate")],
     spec |-> [selector |->
                 [matchLabels |->
                    ("batch.kubernetes.io/controller-uid" :> "u-job")],
               template |->
                 [metadata |->
                    [labels |-> ("controller-uid" :> "u-job")
                                @@ ("batch.kubernetes.io/controller-uid"
                                      :> "u-job")
                                @@ ("job-name" :> "migrate")],
                  spec |-> [containers |-> <<[name |-> "c"]>>]]],
     status |-> [succeeded |-> 1]]

\* The Service of the README's example: one address, one node port.
ObjSvcNodePort ==
    [apiVersion |-> "v1", kind |-> "Service",
     metadata |-> [name |-> "np", namespace |-> "ns-a"],
     spec |-> [clusterIP |-> "10.0.0.1",
               ports |-> <<[port |-> 80, nodePort |-> 31000]>>]]

\* A headless LoadBalancer-like Service: two ports, one with a node port.
ObjHeadless ==
    [apiVersion |-> "v1", kind |-> "Service",
     metadata |-> [name |-> "hl", namespace |-> "ns-a"],
     spec |-> [clusterIP |-> "None", clusterIPs |-> <<"None">>,
               healthCheckNodePort |-> 32000,
               ports |-> <<[port |-> 80],
                           [port |-> 443, nodePort |-> 31443]>>]]

\* An Ingress with TLS hosts and no rules list.
ObjIngTls ==
    [apiVersion |-> "networking.k8s.io/v1", kind |-> "Ingress",
     metadata |-> [name |-> "tlsonly", namespace |-> "ns-a"],
     spec |-> [defaultBackend |-> [service |-> [name |-> "s1"]],
               tls |-> <<[hosts |-> <<"a.example.com", "b.example.com">>,
                          secretName |-> "tls"]>>]]

\* An Ingress with rules (one without a host) and TLS hosts.
ObjIngBoth ==
    [apiVersion |-> "networking.k8s.io/v1", kind |-> "Ingress",
     metadata |-> [name |-> "both", namespace |-> "ns-a"],
     spec |-> [rules |-> <<[host |-> "a.example.com"], [host |-> ""],
                           [http |-> [paths |-> <<>>]]>>,
               tls |-> <<[hosts |-> <<"a.example.com">>],
                         [secretName |-> "tls"]>>]]

SanitizeInputs ==
    {ObjWeb, ObjCfg, ObjS1, ObjS2, ObjFast, ObjP1, ObjIng, ObjPodTok, ObjPvc,
     ObjPvcKept, ObjSa, ObjSaAuto, ObjBare, ObjBareService, ObjJob,
     ObjSvcNodePort, ObjHeadless, ObjIngTls, ObjIngBoth}
    \cup MetaVariants

\* ---------------------------------------------------------------- state
VARIABLES
    store,       \* cluster id -> (key -> object)
    tgtId,       \* cluster the target client talks to (SrcId: same cluster)
    denied,      \* verbs the target refuses
    refs,        \* the ref list handed to PlanAll
    OnConflict,  \* Copier.OnConflict
    ToNamespace, \* o.ToNamespace, PlanAll's targetNS
    ToName,      \* o.ToName, PlanAll's primaryTargetName
    DryRun,      \* o.DryRun
    Yes,         \* o.Yes
    heap,        \* client-side objects, addressed by handle (index)
    fetched,     \* handle of the object each Plan got from the source (0: none)
    planned,     \* the CopyResult list
    calls,       \* every API call a cluster received, in order, by client
    pc,          \* position in Options.Run
    i,           \* loop index of PlanAll / ApplyAll
    answer,      \* what the user said at the prompt
    exit,        \* <<>> while the process runs, then <<exit code>>
    ctx,         \* the context: done or not, and where it was cancelled
    primary,     \* the resolved primary ref handed to Discover
    srcFail,     \* <<verb, resource>> pairs the source refuses
    visited,     \* Discover's visited set of refKeys
    queue,       \* Discover's BFS queue of [obj, ref]
    discovered,  \* Discover's result list
    derr,        \* Discover's returned error ("" is nil)
    expanded,    \* refKeys of the queue items taken off the queue, in order
    sanitized,   \* object trees left by successive sanitizer runs
    cli          \* the command line: args, --output, and what Complete left

\* What the copier's and Run's steps leave alone.
auxVars == <<ctx, primary, srcFail, visited, queue, discovered, derr, expanded,
             sanitized, cli>>

vars == <<store, tgtId, denied, refs, OnConflict, ToNamespace, ToName, DryRun,
          Yes, heap, fetched, planned, calls, pc, i, answer, exit, auxVars>>

\* A context nobody has cancelled.
Background == [done |-> FALSE, pc |-> "", i |-> 0]

\* A call handed a cancelled context returns the context's error.
Alive == ~ctx.done

Call(client, verb, key, ok) ==
    [client |-> client, verb |-> verb, key |-> key, ok |-> ok]

\* ------------------------------------------------------ conflict detector
TypeExistence == "existence"

TypeAddress == "address"

TypeReference == "reference"

Conflict(type, res, msg) == [Type |-> type, Resource |-> res, Message |-> msg]

\* A get on the target succeeds when the context is live, the verb is allowed
\* and the key exists.
resourceExists(gvr, name, namespace) ==
    /\ Alive
    /\ "get" \notin denied
    /\ Key(gvr, namespace, name) \in DOMAIN store[tgtId]

detectServiceAddressConflicts(obj) ==
    IF ~Has(obj, "spec") THEN <<>>
    ELSE
      LET id    == <<"Service", GetName(obj)>>
          spec  == obj.spec
          ip    == Field(spec, "clusterIP", "")
          ports == Field(spec, "ports", <<>>)
          lbIP  == Field(spec, "loadBalancerIP", "")
      IN (IF ip # "" /\ ip # "None"
          THEN <<Conflict(TypeAddress, id, <<"clusterIP", ip>>)>> ELSE <<>>)
         \o Flatten([k \in 1..Len(ports) |->
              IF Has(ports[k], "nodePort") /\ ports[k].nodePort > 0
              THEN <<Conflict(TypeAddress, id,
                              <<"nodePort", ports[k].nodePort>>)>>
              ELSE <<>>])
         \o (IF lbIP # ""
             THEN <<Conflict(TypeAddress, id, <<"loadBalancerIP", lbIP>>)>>
             ELSE <<>>)

detectAddressConflicts(obj) ==
    IF GetKind(obj) = "Service" THEN detectServiceAddressConflicts(obj)
    ELSE <<>>

\* The (gvr, name) pairs looked up in the target, in lookup order.
ReferenceLookups(obj) ==
    LET podSpec == extractPodSpec(obj)
        names(gvr, ns) == [k \in 1..Len(ns) |-> <<gvr, ns[k]>>]
        sa == extractServiceAccountRef(podSpec)
    IN names("configmaps", extractConfigMapRefs(podSpec))
       \o names("secrets", extractSecretRefs(podSpec))
       \o names("persistentvolumeclaims", extractPVCRefs(podSpec))
       \o (IF sa # "" /\ sa # "default"
           THEN <<<<"serviceaccounts", sa>>>> ELSE <<>>)

\* Faulty variant: the lookups end at the first miss.
detectReferenceConflictsFirstMiss(obj, targetNS) ==
    LET id == <<GetKind(obj), GetName(obj)>>
        ls == ReferenceLookups(obj)
        all == Flatten([k \in 1..Len(ls) |->
                 IF ~resourceExists(ls[k][1], ls[k][2], targetNS)
                 THEN <<Conflict(TypeReference, id, ls[k])>> ELSE <<>>])
    IN IF all = <<>> THEN <<>> ELSE <<Head(all)>>

detectReferenceConflicts(obj, targetNS) ==
    LET id == <<GetKind(obj), GetName(obj)>>
        ls == ReferenceLookups(obj)
    IN Flatten([k \in 1..Len(ls) |->
         IF ~resourceExists(ls[k][1], ls[k][2], targetNS)
         THEN <<Conflict(TypeReference, id, ls[k])>> ELSE <<>>])

Detect(gvr, obj, targetNS) ==
    LET name == GetName(obj)
        id   == <<GetKind(obj), name>>
    IN (IF resourceExists(gvr, name, targetNS)
        THEN <<Conflict(TypeExistence, id, <<"already exists", targetNS>>)>>
        ELSE <<>>)
       \o detectAddressConflicts(obj)
       \o detectReferenceConflicts(obj, targetNS)

\* The target gets Detect issues: the existence check, then the lookups.
DetectCalls(gvr, obj, targetNS) ==
    LET ls == ReferenceLookups(obj) IN
    <<Call("target", "get", Key(gvr, targetNS, GetName(obj)),
           resourceExists(gvr, GetName(obj), targetNS))>>
    \o [k \in 1..Len(ls) |->
          Call("target", "get", Key(ls[k][1], targetNS, ls[k][2]),
               resourceExists(ls[k][1], ls[k][2], targetNS))]

\* ---------------------------------------------------------------- copier
\* Faulty variant: any conflict counts, whatever its type.
conflictHasTypeAny(conflicts, t) == Len(conflicts) > 0

conflictHasType(conflicts, t) ==
    \E k \in 1..Len(conflicts) : conflicts[k].Type = t

\* The planned action; a policy outside the three leaves the zero value.
PlannedAction(conflicts, policy) ==
    IF conflictHasType(conflicts, TypeExistence)
    THEN CASE policy = "skip" -> "skip"
           [] policy \in {"warn", "overwrite"} -> "overwrite"
           [] OTHER -> ""
    ELSE "create"

\* Faulty variant: no copy, the same handle is handed on.
DeepCopyAlias(hp, h) == [heap |-> hp, handle |-> h]

\* obj.DeepCopy(): a new handle holding an independent copy.
DeepCopy(hp, h) == [heap |-> Append(hp, hp[h]), handle |-> Len(hp) + 1]

\* Namespace the fetch uses.
FetchNS(ref) == IF ref.Namespaced THEN ref.Namespace ELSE ""

\* Plan of one ref: the result, the heap and calls after it, the fetched
\* handle.  Reads store, denied, OnConflict, heap and calls.
Plan(ref, targetNS, targetName0) ==
    LET targetName == IF targetName0 = "" THEN ref.Name ELSE targetName0
        result == [Source |-> ref, TargetName |-> targetName,
                   TargetNS |-> targetNS, Action |-> "", Warnings |-> <<>>,
                   Conflicts |-> <<>>, Error |-> "", Sanitized |-> 0]
        skey   == Key(ref.GVR, FetchNS(ref), ref.Name)
        found  == Alive /\ skey \in DOMAIN store[SrcId]
        fetch  == Call("source", "get", skey, found)
    IN IF ~found
       THEN [result |-> [result EXCEPT !.Error = "fetch"], heap |-> heap,
             calls |-> Append(calls, fetch), obj |-> 0]
       ELSE
         LET hp1  == Append(heap, store[SrcId][skey])
             obj  == Len(hp1)
             dc   == DeepCopy(hp1, obj)
             r    == Run(dc.heap[dc.handle], targetNS, targetName)
             hp2  == [dc.heap EXCEPT ![dc.handle] = r.obj]
             copied == hp2[dc.handle]
             conflicts == Detect(ref.GVR, copied, targetNS)
         IN [result |-> [result EXCEPT
                           !.Warnings = r.warnings,
                           !.Sanitized = dc.handle,
                           !.Conflicts = conflicts,
                           !.Action = PlannedAction(conflicts, OnConflict)],
             heap |-> hp2,
             calls |-> Append(calls, fetch)
                       \o DetectCalls(ref.GVR, copied, targetNS),
             obj |-> obj]

\* Faulty variant: the override is applied to every ref.
PlanAllNameEveryRef(k, ref, primaryTargetName) ==
    IF primaryTargetName # "" THEN primaryTargetName ELSE ref.Name

\* Name PlanAll passes to Plan for the ref at index k.
PlanAllName(k, ref, primaryTargetName) ==
    IF k = 1 /\ primaryTargetName # "" THEN primaryTargetName ELSE ref.Name

\* One iteration of PlanAll's loop.
PlanAll ==
    /\ pc = "PlanAll"
    /\ i <= Len(refs)
    /\ LET p == Plan(refs[i], ToNamespace, PlanAllName(i, refs[i], ToName)) IN
       /\ planned' = Append(planned, p.result)
       /\ heap' = p.heap
       /\ calls' = p.calls
       /\ fetched' = Append(fetched, p.obj)
    /\ i' = i + 1
    /\ pc' = IF i = Len(refs) THEN "PrintPlan" ELSE "PlanAll"
    /\ UNCHANGED <<store, tgtId, denied, refs, OnConflict, ToNamespace, ToName,
                   DryRun, Yes, answer, exit, auxVars>>

\* Namespace Apply addresses in the target.
ApplyNS(r) == IF ~r.Source.Namespaced THEN "" ELSE r.TargetNS

\* Faulty variant: the delete addresses the source name.
DeleteKeySourceName(r) == Key(r.Source.GVR, ApplyNS(r), r.Source.Name)

\* Key of Apply's delete: the planned target name.
DeleteKey(r) == Key(r.Source.GVR, ApplyNS(r), r.TargetName)

\* Key of Apply's create: the name carried by the sanitized object.
CreateKey(r) == Key(r.Source.GVR, ApplyNS(r), GetName(heap[r.Sanitized]))

\* Faulty variant: only an error short-circuits, a planned skip goes on.
ApplyShortCircuitsOnErrorOnly(r) == r.Error # ""

\* Apply returns at once on a result with an error or a planned skip.
ApplyShortCircuits(r) == r.Error # "" \/ r.Action = "skip"

\* What the short-circuit leaves in the result.
ShortCircuited(r) ==
    IF r.Action = "skip" THEN [r EXCEPT !.Action = "skipped"] ELSE r

\* What the create leaves in the result.
Executed(r, ok) ==
    [r EXCEPT !.Action = IF r.Action = "overwrite" THEN "overwritten"
                         ELSE "created",
              !.Error = IF ok THEN r.Error ELSE "create"]

\* Faulty variant: the first result carrying an error ends the batch.
ApplyStopsAtError ==
    /\ pc = "ApplyAll"
    /\ i <= Len(planned)
    /\ IF ApplyShortCircuits(planned[i])
       THEN /\ planned' = [planned EXCEPT ![i] = ShortCircuited(@)]
            /\ i' = IF planned[i].Error # "" THEN Len(planned) + 1 ELSE i + 1
            /\ pc' = "ApplyAll"
       ELSE /\ pc' = IF planned[i].Action = "overwrite" THEN "Delete"
                     ELSE "Create"
            /\ UNCHANGED <<planned, i>>
    /\ UNCHANGED <<store, tgtId, denied, refs, OnConflict, ToNamespace, ToName,
                   DryRun, Yes, heap, fetched, calls, answer, exit, auxVars>>

\* Entry of Apply for planned[i]: return at once, or go on to the calls.
Apply ==
    /\ pc = "ApplyAll"
    /\ i <= Len(planned)
    /\ IF ApplyShortCircuits(planned[i])
       THEN /\ planned' = [planned EXCEPT ![i] = ShortCircuited(@)]
            /\ i' = i + 1
            /\ pc' = "ApplyAll"
       ELSE /\ pc' = IF planned[i].Action = "overwrite" THEN "Delete"
                     ELSE "Create"
            /\ UNCHANGED <<planned, i>>
    /\ UNCHANGED <<store, tgtId, denied, refs, OnConflict, ToNamespace, ToName,
                   DryRun, Yes, heap, fetched, calls, answer, exit, auxVars>>

\* The delete of an overwrite; its error is dropped.
ApplyDelete ==
    /\ pc = "Delete"
    /\ LET key == DeleteKey(planned[i])
           ok  == /\ Alive
                  /\ "delete" \notin denied
                  /\ key \in DOMAIN store[tgtId]
       IN /\ calls' = Append(calls, Call("target", "delete", key, ok))
          /\ store' = IF ok THEN [store EXCEPT ![tgtId] = Del(@, key)]
                      ELSE store
    /\ pc' = "Create"
    /\ UNCHANGED <<tgtId, denied, refs, OnConflict, ToNamespace, ToName,
                   DryRun, Yes, heap, fetched, planned, i, answer, exit,
                   auxVars>>

\* Faulty variant: a create that finds the object in place replaces it.
ApplyCreateOrReplace ==
    /\ pc = "Create"
    /\ LET r   == planned[i]
           key == CreateKey(r)
           ok  == /\ Alive
                  /\ "create" \notin denied
       IN /\ calls' = Append(calls, Call("target", "create", key, ok))
          /\ store' = IF ok
                      THEN [store EXCEPT
                              ![tgtId] = Put(@, key, heap[r.Sanitized])]
                      ELSE store
          /\ planned' = [planned EXCEPT ![i] = Executed(r, ok)]
    /\ i' = i + 1
    /\ pc' = "ApplyAll"
    /\ UNCHANGED <<tgtId, denied, refs, OnConflict, ToNamespace, ToName,
                   DryRun, Yes, heap, fetched, answer, exit, auxVars>>

\* The create, then the executed action and the error.
ApplyCreate ==
    /\ pc = "Create"
    /\ LET r   == planned[i]
           key == CreateKey(r)
           ok  == /\ Alive
                  /\ "create" \notin denied
                  /\ key \notin DOMAIN store[tgtId]
       IN /\ calls' = Append(calls, Call("target", "create", key, ok))
          /\ store' = IF ok
                      THEN [store EXCEPT
                              ![tgtId] = Put(@, key, heap[r.Sanitized])]
                      ELSE store
          /\ planned' = [planned EXCEPT ![i] = Executed(r, ok)]
    /\ i' = i + 1
    /\ pc' = "ApplyAll"
    /\ UNCHANGED <<tgtId, denied, refs, OnConflict, ToNamespace, ToName,
                   DryRun, Yes, heap, fetched, answer, exit, auxVars>>

\* ------------------------------------------------------------ Options.Run
\* Some planned result has no error and is not a skip.
hasWork ==
    \E k \in 1..Len(planned) :
        planned[k].Error = "" /\ planned[k].Action # "skip"

\* output.PrintPlan: the table, YAML and JSON printers return an error only
\* when marshalling fails, whatever the results carry ("" is nil).
PrintPlan(results) == ""

\* output.PrintResults: likewise.
PrintResultsOf(results) == ""

\* main: exit status 1 when Execute returned an error.
ExitCode(err) == IF err # "" THEN 1 ELSE 0

Finish(next, ans) ==
    /\ pc' = next
    /\ i' = 1
    /\ answer' = ans
    /\ exit' = IF next = "done"
               THEN <<ExitCode(IF DryRun THEN PrintPlan(planned) ELSE "")>>
               ELSE exit
    /\ UNCHANGED <<store, tgtId, denied, refs, OnConflict, ToNamespace, ToName,
                   DryRun, Yes, heap, fetched, planned, calls, auxVars>>

\* --dry-run: print the plan and return.
RunDryRun == pc = "PrintPlan" /\ DryRun /\ Finish("done", answer)

\* Without --yes and with nothing actionable: return.
RunNothingToDo ==
    pc = "PrintPlan" /\ ~DryRun /\ ~Yes /\ ~hasWork /\ Finish("done", answer)

\* The user declines at the prompt.
RunAborted ==
    pc = "PrintPlan" /\ ~DryRun /\ ~Yes /\ hasWork /\ Finish("done", "no")

\* The user accepts at the prompt.
RunConfirmed ==
    pc = "PrintPlan" /\ ~DryRun /\ ~Yes /\ hasWork /\ Finish("ApplyAll", "yes")

\* Faulty variant: --yes applies without looking at --dry-run.
RunYesIgnoringDryRun == pc = "PrintPlan" /\ Yes /\ Finish("ApplyAll", answer)

\* --yes: no prompt.
RunYes == pc = "PrintPlan" /\ ~DryRun /\ Yes /\ Finish("ApplyAll", answer)

\* ApplyAll has gone through the list: print the results and return.
PrintResults ==
    /\ pc = "ApplyAll"
    /\ i > Len(planned)
    /\ pc' = "applied"
    /\ exit' = <<ExitCode(PrintResultsOf(planned))>>
    /\ UNCHANGED <<store, tgtId, denied, refs, OnConflict, ToNamespace, ToName,
                   DryRun, Yes, heap, fetched, planned, calls, i, answer,
                   auxVars>>

\* ------------------------------------------------------------- discovery
\* discovery's pod spec lookup; a CronJob's template is looked up directly
\* under jobTemplate.
discoveryPodSpec(obj) ==
    LET kind == GetKind(obj)
        spec == Field(obj, "spec", EmptyMap)
        tmpl == Field(spec, "template", EmptyMap)
        jobT == Field(spec, "jobTemplate", EmptyMap)
    IN CASE kind = "Pod" -> spec
         [] kind \in {"Deployment", "StatefulSet", "DaemonSet", "ReplicaSet",
                      "Job"} -> Field(tmpl, "spec", EmptyMap)
         [] kind = "CronJob" ->
                Field(Field(jobT, "template", EmptyMap), "spec", EmptyMap)
         [] OTHER -> EmptyMap

extractPodTemplateLabels(obj) ==
    LET kind == GetKind(obj)
        spec == Field(obj, "spec", EmptyMap)
        jobS == Field(Field(spec, "jobTemplate", EmptyMap), "spec", EmptyMap)
        tmpl == CASE kind \in {"Deployment", "StatefulSet", "DaemonSet",
                               "ReplicaSet", "Job"} ->
                         Field(spec, "template", EmptyMap)
                  [] kind = "CronJob" -> Field(jobS, "template", EmptyMap)
                  [] OTHER -> EmptyMap
    IN IF kind = "Pod"
       THEN Field(Field(obj, "metadata", EmptyMap), "labels", EmptyMap)
       ELSE Field(Field(tmpl, "metadata", EmptyMap), "labels", EmptyMap)

extractConfigMapNames(podSpec) ==
    Dedup(VolumeNames(podSpec, "configMap", "name", "configMap")
          \o ContainerNames(podSpec, "containers", "configMapRef",
                            "configMapKeyRef")
          \o ContainerNames(podSpec, "initContainers", "configMapRef",
                            "configMapKeyRef"), {})

extractSecretNames(podSpec) ==
    Dedup(VolumeNames(podSpec, "secret", "secretName", "secret")
          \o ContainerNames(podSpec, "containers", "secretRef", "secretKeyRef")
          \o ContainerNames(podSpec, "initContainers", "secretRef",
                            "secretKeyRef"), {})

extractPVCNames(podSpec) ==
    LET vols == Field(podSpec, "volumes", <<>>) IN
    Dedup(Flatten([k \in 1..Len(vols) |->
        NameAt(vols[k], "persistentVolumeClaim", "claimName")]), {})

extractServiceAccountName(podSpec) ==
    IF Has(podSpec, "serviceAccountName") THEN podSpec.serviceAccountName
    ELSE Field(podSpec, "serviceAccount", "")

\* A ref as discovery builds it: resource, name and namespace, nothing else.
DRef(gvr, name, namespace) ==
    [GVR |-> gvr, Kind |-> "", Name |-> name, Namespace |-> namespace,
     Namespaced |-> FALSE]

extractForwardRefs(obj, namespace) ==
    LET podSpec == discoveryPodSpec(obj)
        of(gvr, ns) == [k \in 1..Len(ns) |-> DRef(gvr, ns[k], namespace)]
        sa == extractServiceAccountName(podSpec)
    IN of("configmaps", extractConfigMapNames(podSpec))
       \o of("secrets", extractSecretNames(podSpec))
       \o of("persistentvolumeclaims", extractPVCNames(podSpec))
       \o (IF sa # "" /\ sa # "default"
           THEN <<DRef("serviceaccounts", sa, namespace)>> ELSE <<>>)

refKey(ref) ==
    [Resource |-> ref.GVR, Name |-> ref.Name, Namespace |-> ref.Namespace]

\* A get on the source.
SourceGet(key) ==
    /\ Alive
    /\ <<"get", key.gvr>> \notin srcFail
    /\ key \in DOMAIN store[SrcId]

\* A list on the source: it fails as a whole or returns the namespace's
\* objects of the resource in name order.
SourceListOk(resource) == Alive /\ <<"list", resource>> \notin srcFail

SourceList(resource, namespace) ==
    LET w  == store[SrcId]
        ns == SelectSeq(SourceNames,
                        LAMBDA n : Key(resource, namespace, n) \in DOMAIN w)
    IN [k \in 1..Len(ns) |-> w[Key(resource, namespace, ns[k])]]

\* What a finder returns: the refs, their objects, and the calls it issued.
Found(objs, gvr, namespace, cs) ==
    [refs |-> [k \in 1..Len(objs) |-> DRef(gvr, GetName(objs[k]), namespace)],
     objs |-> objs, calls |-> cs]

\* Every selector value equals the pod label under the same key; a label
\* the pod lacks reads as the empty string.
selectorMatches(selector, podLabels) ==
    \A k \in DOMAIN selector : Field(podLabels, k, "") = selector[k]

findMatchingServices(namespace, podLabels) ==
    LET ok    == SourceListOk("services")
        c     == Call("source", "list", Key("services", namespace, ""), ok)
        match(svc) ==
            /\ Has(svc, "spec")
            /\ Has(svc.spec, "selector")
            /\ DOMAIN svc.spec.selector # {}
            /\ selectorMatches(svc.spec.selector, podLabels)
    IN IF ~ok THEN Found(<<>>, "services", namespace, <<c>>)
       ELSE Found(SelectSeq(SourceList("services", namespace), match),
                  "services", namespace, <<c>>)

\* Some backend of the Ingress, default or under a rule's path, names the
\* Service; without a rules list only the default backend counts.
ingressReferencesService(ing, serviceName) ==
    LET spec  == Field(ing, "spec", EmptyMap)
        names(b) == NameAt(b, "service", "name")
        rules == Field(spec, "rules", <<>>)
        paths(r) == Field(Field(r, "http", EmptyMap), "paths", <<>>)
    IN /\ Has(ing, "spec")
       /\ \/ names(Field(spec, "defaultBackend", EmptyMap)) = <<serviceName>>
          \/ \E r \in 1..Len(rules) :
               \E q \in 1..Len(paths(rules[r])) :
                 names(Field(paths(rules[r])[q], "backend", EmptyMap))
                   = <<serviceName>>

findIngressesForService(namespace, serviceName) ==
    LET ok == SourceListOk("ingresses")
        c  == Call("source", "list", Key("ingresses", namespace, ""), ok)
        match(ing) == ingressReferencesService(ing, serviceName)
    IN IF ~ok THEN Found(<<>>, "ingresses", namespace, <<c>>)
       ELSE Found(SelectSeq(SourceList("ingresses", namespace), match),
                  "ingresses", namespace, <<c>>)

\* autoscaling/v2 first, autoscaling/v1 when that list fails.
findHPAsForResource(namespace, kind, name) ==
    LET hpas == "horizontalpodautoscalers"
        ok2  == SourceListOk("horizontalpodautoscalers/v2")
        ok1  == SourceListOk("horizontalpodautoscalers/v1")
        c2   == Call("source", "list",
                     Key("horizontalpodautoscalers/v2", namespace, ""), ok2)
        c1   == Call("source", "list",
                     Key("horizontalpodautoscalers/v1", namespace, ""), ok1)
        cs   == IF ok2 THEN <<c2>> ELSE <<c2, c1>>
        match(hpa) ==
            /\ Has(hpa, "spec")
            /\ Has(hpa.spec, "scaleTargetRef")
            /\ Field(hpa.spec.scaleTargetRef, "kind", "") = kind
            /\ Field(hpa.spec.scaleTargetRef, "name", "") = name
    IN IF ~ok2 /\ ~ok1 THEN Found(<<>>, hpas, namespace, cs)
       ELSE Found(SelectSeq(SourceList(hpas, namespace), match),
                  hpas, namespace, cs)

NoneFound == [refs |-> <<>>, objs |-> <<>>, calls |-> <<>>]

\* Faulty variant: one failed list drops every reverse ref of the node.
discoverReverseRefsAllOrNothing(obj, namespace) ==
    LET kind == GetKind(obj)
        podLabels == extractPodTemplateLabels(obj)
        svcs == IF /\ kind \in {"Deployment", "StatefulSet", "DaemonSet",
                                "ReplicaSet", "Pod"}
                   /\ DOMAIN podLabels # {}
                THEN findMatchingServices(namespace, podLabels)
                ELSE NoneFound
        ings == IF kind = "Service"
                THEN findIngressesForService(namespace, GetName(obj))
                ELSE NoneFound
        hpas == IF kind \in {"Deployment", "StatefulSet", "ReplicaSet"}
                THEN findHPAsForResource(namespace, kind, GetName(obj))
                ELSE NoneFound
        cs   == svcs.calls \o ings.calls \o hpas.calls
    IN IF \E k \in 1..Len(cs) : ~cs[k].ok
       THEN [refs |-> <<>>, objs |-> <<>>, calls |-> cs]
       ELSE [refs  |-> svcs.refs \o ings.refs \o hpas.refs,
             objs  |-> svcs.objs \o ings.objs \o hpas.objs,
             calls |-> cs]

\* Services of a workload, Ingresses of a Service, HPAs of a workload, in
\* that order.
discoverReverseRefs(obj, namespace) ==
    LET kind == GetKind(obj)
        podLabels == extractPodTemplateLabels(obj)
        svcs == IF /\ kind \in {"Deployment", "StatefulSet", "DaemonSet",
                                "ReplicaSet", "Pod"}
                   /\ DOMAIN podLabels # {}
                THEN findMatchingServices(namespace, podLabels)
                ELSE NoneFound
        ings == IF kind = "Service"
                THEN findIngressesForService(namespace, GetName(obj))
                ELSE NoneFound
        hpas == IF kind \in {"Deployment", "StatefulSet", "ReplicaSet"}
                THEN findHPAsForResource(namespace, kind, GetName(obj))
                ELSE NoneFound
    IN [refs  |-> svcs.refs \o ings.refs \o hpas.refs,
        objs  |-> svcs.objs \o ings.objs \o hpas.objs,
        calls |-> svcs.calls \o ings.calls \o hpas.calls]

\* Faulty variant: nothing ever counts as visited.
visitedHasNothing(seen, key) == FALSE

\* visited[key]
visitedHas(seen, key) == key \in seen

\* Body of the forward loop: a candidate not yet visited is marked, then
\* fetched, and kept and queued only when the fetch succeeded.
forwardStep(ref, st) ==
    LET key  == refKey(ref)
        skey == Key(ref.GVR, ref.Namespace, ref.Name)
        ok   == SourceGet(skey)
        c    == Call("source", "get", skey, ok)
    IN IF visitedHas(st.visited, key) THEN st
       ELSE IF ~ok
       THEN [st EXCEPT !.visited = @ \cup {key}, !.calls = Append(@, c)]
       ELSE [st EXCEPT !.visited = @ \cup {key}, !.calls = Append(@, c),
                       !.result = Append(@, ref),
                       !.queue = Append(@, [obj |-> store[SrcId][skey],
                                            ref |-> ref])]

\* The loops thread the walk's state through their steps; the set binder
\* makes each step's outcome a value before the next step reads it.
RECURSIVE forwardLoop(_, _)
forwardLoop(frefs, st) ==
    IF frefs = <<>> THEN st
    ELSE CHOOSE out \in {forwardLoop(Tail(frefs), s) :
                           s \in {forwardStep(Head(frefs), st)}} : TRUE

\* Faulty variant: a reverse ref already kept is queued once more.
reverseStepRequeue(ref, obj, st) ==
    [st EXCEPT !.visited = @ \cup {refKey(ref)},
               !.result = IF visitedHas(st.visited, refKey(ref))
                          THEN @ ELSE Append(@, ref),
               !.queue = Append(@, [obj |-> obj, ref |-> ref])]

\* Body of the reverse loop: a ref not yet visited is marked, kept and
\* queued.
reverseStep(ref, obj, st) ==
    IF visitedHas(st.visited, refKey(ref)) THEN st
    ELSE [st EXCEPT !.visited = @ \cup {refKey(ref)},
                    !.result = Append(@, ref),
                    !.queue = Append(@, [obj |-> obj, ref |-> ref])]

RECURSIVE reverseLoop(_, _, _)
reverseLoop(rrefs, robjs, st) ==
    IF rrefs = <<>> THEN st
    ELSE CHOOSE out \in {reverseLoop(Tail(rrefs), Tail(robjs), s) :
                           s \in {reverseStep(Head(rrefs), Head(robjs), st)}} :
           TRUE

\* Faulty variant: the reverse refs of a node are taken before its forward
\* refs.
expandReverseFirst(current, namespace, st) ==
    CHOOSE out \in
      {forwardLoop(f, s) :
         f \in {extractForwardRefs(current.obj, namespace)},
         s \in {reverseLoop(rev.refs, rev.objs,
                            [st EXCEPT !.calls = @ \o rev.calls]) :
                  rev \in {discoverReverseRefs(current.obj, namespace)}}} :
      TRUE

\* One pass of the loop body on the item taken off the queue: the forward
\* refs, then the reverse refs.
expand(current, namespace, st) ==
    CHOOSE out \in
      {reverseLoop(rev.refs, rev.objs, [s EXCEPT !.calls = @ \o rev.calls]) :
         s \in {forwardLoop(f, st) :
                  f \in {extractForwardRefs(current.obj, namespace)}},
         rev \in {discoverReverseRefs(current.obj, namespace)}} : TRUE

\* Entry of Discover: mark the primary visited and fetch it.
DiscoverStart ==
    /\ pc = "Discover"
    /\ LET skey == Key(primary.GVR, primary.Namespace, primary.Name)
           ok   == SourceGet(skey)
       IN /\ visited' = {refKey(primary)}
          /\ calls' = Append(calls, Call("source", "get", skey, ok))
          /\ discovered' = <<>>
          /\ IF ok
             THEN /\ queue' = <<[obj |-> store[SrcId][skey],
                                 ref |-> DRef(primary.GVR, primary.Name,
                                              primary.Namespace)]>>
                  /\ derr' = ""
                  /\ pc' = "Walk"
             ELSE /\ queue' = <<>>
                  /\ derr' = "fetching primary resource"
                  /\ pc' = "Discovered"
    /\ UNCHANGED <<store, tgtId, denied, refs, OnConflict, ToNamespace, ToName,
                   DryRun, Yes, heap, fetched, planned, i, answer, exit, ctx,
                   primary, srcFail, expanded, sanitized, cli>>

\* One iteration of the BFS loop.
DiscoverExpand ==
    /\ pc = "Walk"
    /\ queue # <<>>
    /\ \E st \in {expand(Head(queue), primary.Namespace,
                          [visited |-> visited, result |-> discovered,
                           queue |-> Tail(queue), calls |-> calls])} :
          /\ visited' = st.visited
          /\ discovered' = st.result
          /\ queue' = st.queue
          /\ calls' = st.calls
    /\ expanded' = Append(expanded, refKey(Head(queue).ref))
    /\ UNCHANGED <<store, tgtId, denied, refs, OnConflict, ToNamespace, ToName,
                   DryRun, Yes, heap, fetched, planned, pc, i, answer, exit,
                   ctx, primary, srcFail, derr, sanitized, cli>>

\* The queue is empty: Discover returns its result and no error.
DiscoverReturn ==
    /\ pc = "Walk"
    /\ queue = <<>>
    /\ pc' = "Discovered"
    /\ UNCHANGED <<store, tgtId, denied, refs, OnConflict, ToNamespace, ToName,
                   DryRun, Yes, heap, fetched, planned, calls, i, answer,
                   exit, auxVars>>

\* Run on Discover's error: return it.
RunDiscoverFailed ==
    /\ pc = "Discovered"
    /\ derr # ""
    /\ pc' = "done"
    /\ exit' = <<ExitCode(derr)>>
    /\ UNCHANGED <<store, tgtId, denied, refs, OnConflict, ToNamespace, ToName,
                   DryRun, Yes, heap, fetched, planned, calls, i, answer,
                   auxVars>>

\* Run on Discover's result: the dependencies follow the primary.
RunAppendDeps ==
    /\ pc = "Discovered"
    /\ derr = ""
    /\ refs' = refs \o discovered
    /\ pc' = "PlanAll"
    /\ UNCHANGED <<store, tgtId, denied, OnConflict, ToNamespace, ToName,
                   DryRun, Yes, heap, fetched, planned, calls, i, answer,
                   exit, auxVars>>

\* Run with --recursive, up to the call of PlanAll, on an empty target.
DiscoverInit ==
    /\ tgtId = "B"
    /\ \E w \in DiscoverWorlds :
         store = [c \in ClusterIds |-> IF c = SrcId THEN w ELSE EmptyWorld]
    /\ denied = {}
    /\ primary \in Primaries
    /\ refs = <<primary>>
    /\ srcFail \in SrcFailChoices
    /\ OnConflict = "skip"
    /\ ToNamespace = "ns-b"
    /\ ToName = ""
    /\ DryRun = FALSE
    /\ Yes = TRUE
    /\ heap = <<>>
    /\ fetched = <<>>
    /\ planned = <<>>
    /\ calls = <<>>
    /\ pc = "Discover"
    /\ i = 1
    /\ answer = "unasked"
    /\ exit = <<>>
    /\ ctx = Background
    /\ visited = {}
    /\ queue = <<>>
    /\ discovered = <<>>
    /\ derr = ""
    /\ expanded = <<>>
    /\ sanitized = <<>>
    /\ cli = CompletedFor(primary)

DiscoverNext ==
    \/ DiscoverStart
    \/ DiscoverExpand
    \/ DiscoverReturn
    \/ RunDiscoverFailed
    \/ RunAppendDeps

DiscoverSpec == DiscoverInit /\ [][DiscoverNext]_vars

\* Discover runs on one goroutine that nothing suspends: a step that can be
\* taken is taken.
DiscoverFairSpec == DiscoverSpec /\ WF_vars(DiscoverNext)

\* ------------------------------------------------- the sanitizers alone
\* SanitizeCommon on the object as it came in.
SanitizeCommonCall ==
    /\ pc = "Sanitize"
    /\ sanitized = <<>>
    /\ sanitized' = <<[by |-> "SanitizeCommon",
                      obj |-> SanitizeCommon(heap[1], ToNamespace, ToName),
                      warnings |-> <<>>]>>
    /\ UNCHANGED <<store, tgtId, denied, refs, OnConflict, ToNamespace, ToName,
                   DryRun, Yes, heap, fetched, planned, calls, pc, i, answer,
                   exit, ctx, primary, srcFail, visited, queue, discovered,
                   derr, expanded, cli>>

\* Run on the object as the last call left it.
RunCall ==
    /\ pc = "Sanitize"
    /\ Len(sanitized) < MaxRuns
    /\ LET o == IF sanitized = <<>> THEN heap[1]
                ELSE sanitized[Len(sanitized)].obj
           r == Run(o, ToNamespace, ToName)
       IN sanitized' = Append(sanitized, [by |-> "Run", obj |-> r.obj,
                                          warnings |-> r.warnings])
    /\ UNCHANGED <<store, tgtId, denied, refs, OnConflict, ToNamespace, ToName,
                   DryRun, Yes, heap, fetched, planned, calls, pc, i, answer,
                   exit, ctx, primary, srcFail, visited, queue, discovered,
                   derr, expanded, cli>>

\* Any object, target namespace (none for a cluster-scoped copy) and name.
SanitizeInit ==
    /\ heap \in {<<o>> : o \in SanitizeInputs}
    /\ ToNamespace \in TargetNamespaces \cup {""}
    /\ ToName \in TargetNames
    /\ sanitized = <<>>
    /\ pc = "Sanitize"
    /\ tgtId = "B"
    /\ store = [c \in ClusterIds |-> EmptyWorld]
    /\ denied = {}
    /\ primary = PrimaryRef("configmaps", "ConfigMap", "cfg")
    /\ refs = <<primary>>
    /\ srcFail = {}
    /\ OnConflict = "skip"
    /\ DryRun = FALSE
    /\ Yes = TRUE
    /\ fetched = <<>>
    /\ planned = <<>>
    /\ calls = <<>>
    /\ i = 1
    /\ answer = "unasked"
    /\ exit = <<>>
    /\ ctx = Background
    /\ visited = {}
    /\ queue = <<>>
    /\ discovered = <<>>
    /\ derr = ""
    /\ expanded = <<>>
    /\ cli = CompletedFor(primary)

SanitizeNext == SanitizeCommonCall \/ RunCall

SanitizeSpec == SanitizeInit /\ [][SanitizeNext]_vars

\* ------------------------------------- Complete and the start of Run
\* PreRunE: Complete on the arguments; its error ends the command.
CompleteCall ==
    /\ pc = "Complete"
    /\ LET r == Complete(cli.args, ToNamespace, ToName,
                         IF tgtId = SrcId THEN "" ELSE "other", OnConflict,
                         cli.Output)
       IN /\ cli' = [cli EXCEPT !.kind = r.kind, !.name = r.name,
                                !.err = r.err]
          /\ ToNamespace' = r.ToNamespace
          /\ pc' = IF r.err # "" THEN "done" ELSE "Run"
          /\ exit' = IF r.err # "" THEN <<ExitCode(r.err)>> ELSE exit
    /\ UNCHANGED <<store, tgtId, denied, refs, OnConflict, ToName, DryRun, Yes,
                   heap, fetched, planned, calls, i, answer, ctx, primary,
                   srcFail, visited, queue, discovered, derr, expanded,
                   sanitized>>

\* Run up to the primary ref: client.New reads the API groups of the source,
\* Resolve maps the resource through them, and the ref is built from what
\* it returns.
RunConnect ==
    /\ pc = "Run"
    /\ LET Resources ==
             (<<"deployment">> :> <<"deployments", "Deployment">>)
             @@ (<<"deploy">> :> <<"deployments", "Deployment">>)
             @@ (<<"configmap">> :> <<"configmaps", "ConfigMap">>)
           known == cli.kind \in DOMAIN Resources
           name  == IF cli.name = <<>> THEN ""
                    ELSE IF Len(cli.name) = 1 THEN cli.name[1]
                    ELSE "web/x"
       IN /\ cli' = [cli EXCEPT !.clients = TRUE]
          /\ calls' = Append(calls, Call("source", "get",
                                         Key("apis", "", ""), TRUE))
          /\ IF known
             THEN /\ primary' = PrimaryRef(Resources[cli.kind][1],
                                           Resources[cli.kind][2], name)
                  /\ refs' = <<primary'>>
                  /\ pc' = "Resolved"
                  /\ UNCHANGED exit
             ELSE /\ pc' = "done"
                  /\ exit' = <<ExitCode("cannot resolve resource type")>>
                  /\ UNCHANGED <<primary, refs>>
    /\ UNCHANGED <<store, tgtId, denied, OnConflict, ToNamespace, ToName,
                   DryRun, Yes, heap, fetched, planned, i, answer, ctx,
                   srcFail, visited, queue, discovered, derr, expanded,
                   sanitized>>

\* Any command line cobra hands to Complete: one or two arguments, flags of
\* any value.
CompleteInit ==
    /\ cli \in [args : {<<<<"deployment", "/", "web">>>>,
                        <<<<"Deployment", "/", "web">>>>,
                        <<<<"deployment", "/", "web", "/", "x">>>>,
                        <<<<"deployment">>>>,
                        <<<<"/", "web">>>>,
                        <<<<"deployment", "/">>>>,
                        <<<<>>>>,
                        <<<<"deploy">>, <<"web">>>>,
                        <<<<"widget">>, <<"web">>>>,
                        <<<<>>, <<"web">>>>,
                        <<<<"configmap">>, <<>>>>},
                Output : {"table", "json", "xml"},
                kind : {<<>>}, name : {<<>>}, err : {""},
                clients : {FALSE}]
    /\ OnConflict \in Policies \cup {"", "replace"}
    /\ ToNamespace \in TargetNamespaces \cup {""}
    /\ ToName \in TargetNames
    /\ tgtId \in ClusterIds
    /\ store = [c \in ClusterIds |-> IF c = SrcId THEN SourceWorld
                                     ELSE EmptyWorld]
    /\ denied = {}
    /\ primary = PrimaryRef("", "", "")
    /\ refs = <<>>
    /\ srcFail = {}
    /\ DryRun = FALSE
    /\ Yes = TRUE
    /\ heap = <<>>
    /\ fetched = <<>>
    /\ planned = <<>>
    /\ calls = <<>>
    /\ pc = "Complete"
    /\ i = 1
    /\ answer = "unasked"
    /\ exit = <<>>
    /\ ctx = Background
    /\ visited = {}
    /\ queue = <<>>
    /\ discovered = <<>>
    /\ derr = ""
    /\ expanded = <<>>
    /\ sanitized = <<>>

CompleteNext == CompleteCall \/ RunConnect

CompleteSpec == CompleteInit /\ [][CompleteNext]_vars

\* Complete has accepted the arguments: the policy is one of the three, and
\* a copy inside one cluster and namespace carries a new name.
Accepted(policy, toNS, toName, tgt) ==
    /\ policy \in Policies
    /\ ~(toNS = SourceNamespace /\ toName = "" /\ tgt = SrcId)

Init ==
    /\ tgtId \in ClusterIds
    /\ \E w \in TargetWorlds :
         /\ tgtId = SrcId => w = EmptyWorld
         /\ store = [c \in ClusterIds |-> IF c = SrcId THEN SourceWorld ELSE w]
    /\ denied \in DeniedChoices
    /\ refs \in RefLists
    /\ OnConflict \in Policies
    /\ ToNamespace \in TargetNamespaces
    /\ ToName \in TargetNames
    /\ Accepted(OnConflict, ToNamespace, ToName, tgtId)
    /\ DryRun \in BOOLEAN
    /\ Yes \in BOOLEAN
    /\ heap = <<>>
    /\ fetched = <<>>
    /\ planned = <<>>
    /\ calls = <<>>
    /\ pc = "PlanAll"
    /\ i = 1
    /\ answer = "unasked"
    /\ exit = <<>>
    /\ ctx = Background
    /\ primary = refs[1]
    /\ srcFail = {}
    /\ visited = {}
    /\ queue = <<>>
    /\ discovered = <<>>
    /\ derr = ""
    /\ expanded = <<>>
    /\ sanitized = <<>>
    /\ cli = CompletedFor(primary)

Next ==
    \/ PlanAll
    \/ RunDryRun
    \/ RunNothingToDo
    \/ RunAborted
    \/ RunConfirmed
    \/ RunYes
    \/ Apply
    \/ ApplyDelete
    \/ ApplyCreate
    \/ PrintResults

Spec == Init /\ [][Next]_vars

\* ------------------------------------------- a caller that may cancel
\* The caller cancels the context while PlanAll or ApplyAll is on an item.
Cancel ==
    /\ ~ctx.done
    /\ \/ pc = "PlanAll" /\ i <= Len(refs)
       \/ pc = "ApplyAll" /\ i <= Len(planned)
       \/ pc \in {"Delete", "Create"}
    /\ ctx' = [done |-> TRUE,
               pc |-> IF pc = "PlanAll" THEN "PlanAll" ELSE "ApplyAll",
               i |-> i]
    /\ UNCHANGED <<store, tgtId, denied, refs, OnConflict, ToNamespace, ToName,
                   DryRun, Yes, heap, fetched, planned, calls, pc, i, answer,
                   exit, primary, srcFail, visited, queue, discovered, derr,
                   expanded, sanitized, cli>>

CancelNext == Next \/ Cancel

CancelSpec == Init /\ [][CancelNext]_vars

\* ------------------------------- another actor writing to the target
\* Between the plan and its application another client creates, once, the
\* object a planned create is about to create: the API server stores it,
\* and the copier's later create of that key is refused (AlreadyExists).
OtherActorCreate ==
    /\ pc = "PrintPlan"
    /\ \A c \in 1..Len(calls) : calls[c].client # "other"
    /\ \E k \in 1..Len(planned) :
         LET r   == planned[k]
             key == CreateKey(r)
         IN /\ r.Error = ""
            /\ r.Action = "create"
            /\ ~conflictHasType(r.Conflicts, TypeExistence)
            /\ key \notin DOMAIN store[tgtId]
            /\ store' = [store EXCEPT
                           ![tgtId] = Put(@, key,
                                          Stub(r.Source.Kind, key.ns, key.name))]
            /\ calls' = Append(calls, Call("other", "create", key, TRUE))
    /\ UNCHANGED <<tgtId, denied, refs, OnConflict, ToNamespace, ToName,
                   DryRun, Yes, heap, fetched, planned, pc, i, answer, exit,
                   auxVars>>

RaceNext == Next \/ OtherActorCreate

RaceSpec == Init /\ [][RaceNext]_vars

\* =============================================================== claims
\* Helpers of the properties below: they read the state, they model no code.
IsWrite(c) == c.verb \in {"create", "delete"}

WriteIssued == \E k \in 1..Len(calls) : IsWrite(calls[k])

HasConflict(r, t) == \E k \in 1..Len(r.Conflicts) : r.Conflicts[k].Type = t

Planning == pc \in {"PlanAll", "PrintPlan"}

\* The result never got an object from the source.
FetchFailed(r) == r.Error = "fetch"

\* C1: a planned result with a successful fetch is a skip when an existence
\* conflict was detected under policy skip, an overwrite when one was
\* detected under warn or overwrite, and a create otherwise, whatever address
\* and reference conflicts it carries.
C1_PlannedActionFollowsExistence ==
    Planning /\ OnConflict \in Policies =>
      \A k \in 1..Len(planned) :
        LET r == planned[k] IN
        r.Error = "" =>
          r.Action = IF HasConflict(r, TypeExistence)
                     THEN (IF OnConflict = "skip" THEN "skip" ELSE "overwrite")
                     ELSE "create"

\* C1 witness: one plan holds an overwrite that also has a reference conflict
\* and a create that has an address conflict.
C1_Witness ==
    /\ pc = "PrintPlan"
    /\ \E k, m \in 1..Len(planned) :
         /\ planned[k].Action = "overwrite"
         /\ HasConflict(planned[k], TypeExistence)
         /\ HasConflict(planned[k], TypeReference)
         /\ planned[m].Action = "create"
         /\ HasConflict(planned[m], TypeAddress)

\* C2: planning only reads: every call issued while planning is a get, the
\* source never sees anything but gets, and each object fetched from the
\* source still equals the source's object after sanitization ran.
C2_PlanIsReadOnly ==
    /\ Planning => \A k \in 1..Len(calls) : calls[k].verb = "get"
    /\ \A k \in 1..Len(calls) :
         calls[k].client = "source" => calls[k].verb = "get"
    /\ \A k \in 1..Len(fetched) :
         fetched[k] # 0 =>
           heap[fetched[k]] =
             SourceWorld[Key(refs[k].GVR,
                             IF refs[k].Namespaced THEN refs[k].Namespace
                             ELSE "",
                             refs[k].Name)]

\* C2 witness: a fetched object whose sanitized clone differs from it.
C2_Witness ==
    /\ pc = "PrintPlan"
    /\ \E k \in 1..Len(planned) :
         /\ fetched[k] # 0
         /\ planned[k].Sanitized # fetched[k]
         /\ heap[planned[k].Sanitized] # heap[fetched[k]]
         /\ Len(calls) > 2

\* Every result was an error or a skip when the plan was shown.
PlannedNoWork ==
    /\ Len(planned) = Len(refs)
    /\ \A k \in 1..Len(planned) :
         FetchFailed(planned[k]) \/ planned[k].Action \in {"skip", "skipped"}

\* C3: a create or delete is issued only once every ref has been planned, and
\* never under --dry-run, after the user declined, or (without --yes) when
\* every planned result is an error or a skip.
C3_NoWriteBeforePlanOrWithoutConsent ==
    /\ WriteIssued => Len(planned) = Len(refs)
    /\ (DryRun \/ answer = "no" \/ (~Yes /\ PlannedNoWork)) => ~WriteIssued

\* C3 witness: a dry run over several refs with --yes ended with work planned.
C3_Witness ==
    /\ pc = "done"
    /\ DryRun /\ Yes
    /\ Len(planned) > 1
    /\ \E k \in 1..Len(planned) : planned[k].Action = "overwrite"

\* C4: Apply on a result that carries an error or is a planned skip returns
\* without a call, without touching a cluster, and with the error as it was.
C4_ApplyShortCircuit ==
    [][(/\ pc = "ApplyAll"
        /\ i <= Len(planned)
        /\ (planned[i].Error # "" \/ planned[i].Action = "skip"))
       => (/\ calls' = calls
           /\ store' = store
           /\ planned'[i].Error = planned[i].Error
           /\ pc' = "ApplyAll"
           /\ i' = i + 1)]_vars

\* C4 witness: ApplyAll went past a failed fetch and past a skip, no call made.
C4_Witness ==
    /\ pc = "applied"
    /\ \E k, m \in 1..Len(planned) :
         /\ FetchFailed(planned[k])
         /\ planned[m].Action = "skipped"
    /\ ~WriteIssued

\* The plan of r was an overwrite / a create (read off what Plan recorded).
WasOverwrite(r) ==
    ~FetchFailed(r) /\ HasConflict(r, TypeExistence) /\ OnConflict # "skip"

WasCreate(r) == ~FetchFailed(r) /\ ~HasConflict(r, TypeExistence)

TargetKey(r) ==
    Key(r.Source.GVR, IF r.Source.Namespaced THEN r.TargetNS ELSE "",
        r.TargetName)

VerbKey(verb, key) == [verb |-> verb, key |-> key]

\* The writes the first n results call for, in order.
ExpectedWrites(n) ==
    Flatten([k \in 1..n |->
        IF WasOverwrite(planned[k])
        THEN <<VerbKey("delete", TargetKey(planned[k])),
               VerbKey("create", TargetKey(planned[k]))>>
        ELSE IF WasCreate(planned[k])
        THEN <<VerbKey("create", TargetKey(planned[k]))>>
        ELSE <<>>])

IssuedWrites ==
    LET w == SelectSeq(calls, IsWrite) IN
    [k \in 1..Len(w) |-> VerbKey(w[k].verb, w[k].key)]

\* C5: for each applied overwrite the target saw exactly one delete and then
\* exactly one create of the same (gvr, namespace, name), whatever the delete
\* returned, and a succeeding create leaves the action "overwritten".
C5_OverwriteIsDeleteThenCreate ==
    pc \in {"ApplyAll", "applied"} =>
      /\ IssuedWrites = ExpectedWrites(i - 1)
      /\ \A k \in 1..(i - 1) :
           WasOverwrite(planned[k]) /\ planned[k].Error = ""
             => planned[k].Action = "overwritten"

\* C5 witness: an overwrite under a new name whose delete and create both
\* succeeded, and the run is over.
C5_Witness ==
    /\ pc = "applied"
    /\ \E k \in 1..Len(planned) :
         /\ WasOverwrite(planned[k]) /\ planned[k].Error = ""
         /\ planned[k].TargetName # planned[k].Source.Name
    /\ \E a \in 1..Len(calls) : calls[a].verb = "delete" /\ calls[a].ok

\* C6: for an overwrite the create is attempted only when no object with the
\* same (gvr, namespace, name) is left in the target.
C6_CreateOnlyOnceGone ==
    pc = "Create" /\ WasOverwrite(planned[i])
      => TargetKey(planned[i]) \notin DOMAIN store[tgtId]

\* C7: a result whose create failed is not reported as created or overwritten.
C7_ExecutedOnlyOnSuccess ==
    \A k \in 1..Len(planned) :
      planned[k].Error = "create"
        => planned[k].Action \notin {"created", "overwritten"}

\* C8: after ApplyAll every result's action is created, skipped or
\* overwritten; one that entered Apply with an error is skipped.
C8_ExecutedActionAfterApplyAll ==
    pc = "applied" =>
      \A k \in 1..Len(planned) :
        /\ planned[k].Action \in {"created", "skipped", "overwritten"}
        /\ FetchFailed(planned[k]) => planned[k].Action = "skipped"

\* C9: the sanitized object carries the target namespace for a namespaced ref
\* and no namespace for a cluster-scoped ref.
C9_SanitizedNamespace ==
    \A k \in 1..Len(planned) :
      planned[k].Sanitized # 0 =>
        GetNamespace(heap[planned[k].Sanitized]) =
          IF planned[k].Source.Namespaced THEN ToNamespace ELSE ""

\* C10: result 1 is named after the override when one is given, every other
\* result after its own source name, in TargetName and in the sanitized
\* object alike.
C10_TargetNames ==
    \A k \in 1..Len(planned) :
      LET want == IF k = 1 /\ ToName # "" THEN ToName ELSE refs[k].Name IN
      /\ planned[k].TargetName = want
      /\ planned[k].Sanitized # 0 => GetName(heap[planned[k].Sanitized]) = want

\* C10 witness: an override was given and a dependency that was fetched kept
\* its own name while the primary took the override.
C10_Witness ==
    /\ ToName # ""
    /\ Len(planned) > 1
    /\ planned[1].Sanitized # 0 /\ planned[2].Sanitized # 0
    /\ GetName(heap[planned[1].Sanitized]) = ToName
    /\ refs[1].Name # ToName
    /\ GetName(heap[planned[2].Sanitized]) = refs[2].Name

\* ------------------------------------------------ discovery properties
\* (resource, namespace, name) of a ref.
Triple(ref) == <<ref.GVR, ref.Namespace, ref.Name>>

DiscoveredTriples == {Triple(discovered[k]) : k \in 1..Len(discovered)}

\* Discover has returned, with or without an error.
Returned == pc \in {"Discovered", "PlanAll", "done"}

\* The primary could be fetched from the source.
PrimaryFetched ==
    /\ <<"get", primary.GVR>> \notin srcFail
    /\ Key(primary.GVR, primary.Namespace, primary.Name) \in DOMAIN store[SrcId]

\* C11: the list Discover builds never holds two refs with the same
\* (resource, namespace, name) and never holds the primary, also when an
\* object is reached along several paths.
C11_NoDuplicateNoPrimary ==
    /\ \A a, b \in 1..Len(discovered) :
         a # b => Triple(discovered[a]) # Triple(discovered[b])
    /\ \A a \in 1..Len(discovered) : Triple(discovered[a]) # Triple(primary)

\* C11 witness: Discover returned an Ingress that both discovered Services
\* lead to.
C11_Witness ==
    /\ pc = "Discovered"
    /\ {<<"services", "ns-a", "s1">>, <<"services", "ns-a", "s2">>,
        <<"ingresses", "ns-a", "ing">>} \subseteq DiscoveredTriples
    /\ ingressReferencesService(ObjIng, "s1")
    /\ ingressReferencesService(ObjIng, "s2")

\* Resources of forward refs.
ForwardResources ==
    {"configmaps", "secrets", "persistentvolumeclaims", "serviceaccounts"}

\* The refs one edge away from the primary: its forward candidates and the
\* Services and HPAs that point at it.
Level1 ==
    LET w == store[SrcId]
        o == w[Key(primary.GVR, primary.Namespace, primary.Name)]
        f == extractForwardRefs(o, primary.Namespace)
        r == discoverReverseRefs(o, primary.Namespace).refs
    IN {Triple(f[k]) : k \in 1..Len(f)} \cup {Triple(r[k]) : k \in 1..Len(r)}

\* C12: in Discover's list every ref one edge away from the primary comes
\* before every ref two edges away, and among the refs of one expanded node
\* the forward refs come before the reverse refs.
C12_BreadthFirstOrder ==
    PrimaryFetched =>
      \A a, b \in 1..Len(discovered) :
        a < b =>
          /\ ~(Triple(discovered[a]) \notin Level1
               /\ Triple(discovered[b]) \in Level1)
          /\ ~(/\ Triple(discovered[a]) \in Level1
               /\ Triple(discovered[b]) \in Level1
               /\ discovered[a].GVR \notin ForwardResources
               /\ discovered[b].GVR \in ForwardResources)

\* C12 witness: the list holds a forward ref, a reverse ref of the primary
\* and a ref two edges away.
C12_Witness ==
    /\ pc = "Discovered"
    /\ \E a, b, c \in 1..Len(discovered) :
         /\ a < b /\ b < c
         /\ discovered[a].GVR = "configmaps"
         /\ discovered[b].GVR = "services"
         /\ discovered[c].GVR = "ingresses"
         /\ Triple(discovered[c]) \notin Level1

\* Every expansion so far took a different node, each an object of the
\* source, and the nodes still queued are further ones.
ExpandedOnce ==
    LET all == expanded \o [k \in 1..Len(queue) |-> refKey(queue[k].ref)] IN
    /\ \A a, b \in 1..Len(all) : a # b => all[a] # all[b]
    /\ \A a \in 1..Len(all) :
         Key(all[a].Resource, all[a].Namespace, all[a].Name)
           \in DOMAIN store[SrcId]
    /\ Len(all) <= Cardinality(DOMAIN store[SrcId])

\* C13: Discover returns on every source cluster, and no (resource,
\* namespace, name) node has its edges expanded twice.
C13_TerminatesExpandingOnce == []ExpandedOnce /\ <>Returned

\* C13 witness: the walk is over after expanding the primary, two Services
\* and the Ingress both lead to.
C13_Witness ==
    /\ pc = "Discovered"
    /\ Len(expanded) >= 4
    /\ \E a, b, c \in 1..Len(expanded) :
         /\ expanded[a].Name = "s1"
         /\ expanded[b].Name = "s2"
         /\ expanded[c].Name = "ing"

\* The objects of a resource in the source namespace that satisfy P.
SourceTriples(resource, P(_)) ==
    LET w == store[SrcId] IN
    {<<k.gvr, k.ns, k.name>> :
       k \in {x \in DOMAIN w : /\ x.gvr = resource
                               /\ x.ns = primary.Namespace
                               /\ P(w[x])}}

\* The Services a workload primary leads to when the list succeeds.
WantServices ==
    LET o == store[SrcId][Key(primary.GVR, primary.Namespace, primary.Name)]
        labels == extractPodTemplateLabels(o)
        match(svc) == /\ Has(svc, "spec") /\ Has(svc.spec, "selector")
                      /\ DOMAIN svc.spec.selector # {}
                      /\ selectorMatches(svc.spec.selector, labels)
    IN IF /\ primary.Kind \in {"Deployment", "Pod"}
          /\ DOMAIN labels # {}
          /\ <<"list", "services">> \notin srcFail
       THEN SourceTriples("services", match) ELSE {}

\* The Ingresses the Services in reach lead to when the list succeeds.
WantIngresses ==
    LET svcs == {t[3] : t \in WantServices}
                \cup (IF primary.Kind = "Service" THEN {primary.Name} ELSE {})
        match(ing) == \E n \in svcs : ingressReferencesService(ing, n)
    IN IF <<"list", "ingresses">> \notin srcFail
       THEN SourceTriples("ingresses", match) ELSE {}

\* The HPAs of a Deployment primary when one of the two lists succeeds.
WantHPAs ==
    LET match(hpa) == /\ Has(hpa, "spec") /\ Has(hpa.spec, "scaleTargetRef")
                      /\ hpa.spec.scaleTargetRef.kind = primary.Kind
                      /\ hpa.spec.scaleTargetRef.name = primary.Name
    IN IF /\ primary.Kind = "Deployment"
          /\ ~({<<"list", "horizontalpodautoscalers/v2">>,
                <<"list", "horizontalpodautoscalers/v1">>} \subseteq srcFail)
       THEN SourceTriples("horizontalpodautoscalers", match) ELSE {}

\* The forward candidates of the primary that a get returns.
WantForward ==
    LET o == store[SrcId][Key(primary.GVR, primary.Namespace, primary.Name)]
        f == extractForwardRefs(o, primary.Namespace)
    IN {Triple(f[k]) : k \in
          {x \in 1..Len(f) :
             /\ <<"get", f[x].GVR>> \notin srcFail
             /\ Key(f[x].GVR, f[x].Namespace, f[x].Name)
                  \in DOMAIN store[SrcId]}}

\* C14: once Discover has returned, a failed fetch of the primary has given
\* an error and no refs; otherwise there is no error and the list holds
\* every forward candidate whose get succeeded and every reverse ref of each
\* edge class whose list succeeded, whatever other get or list failed.
C14_FailuresDropOnlyTheirEdge ==
    Returned =>
      IF PrimaryFetched
      THEN /\ derr = ""
           /\ DiscoveredTriples =
                WantForward \cup WantServices \cup WantIngresses \cup WantHPAs
      ELSE derr # "" /\ discovered = <<>>

\* C14 witness: the Services list failed, and Discover returned the
\* ConfigMap and the HPA without an error.
C14_Witness ==
    /\ pc = "Discovered"
    /\ <<"list", "services">> \in srcFail
    /\ \E k \in 1..Len(calls) : calls[k].verb = "list" /\ ~calls[k].ok
    /\ derr = ""
    /\ {<<"configmaps", "ns-a", "cfg">>,
        <<"horizontalpodautoscalers", "ns-a", "hpa">>}
         \subseteq DiscoveredTriples

\* ------------------------------------------------ sanitizer properties
ServerFields ==
    {"uid", "resourceVersion", "creationTimestamp", "generation", "selfLink",
     "managedFields", "ownerReferences"}

\* What the universal sanitizer promises of an object tree.
Stripped(o) ==
    /\ Has(o, "metadata") =>
         /\ (DOMAIN o.metadata) \cap ServerFields = {}
         /\ Has(o.metadata, "annotations") =>
              /\ ~Has(o.metadata.annotations, LastApplied)
              /\ DOMAIN o.metadata.annotations # {}
    /\ ~Has(o, "status")

\* C15 as stated: after the universal sanitizer has run on any object, its
\* metadata holds no server-set field and no ownerReferences, the
\* last-applied annotation is gone together with an annotations mapping it
\* leaves empty, and there is no top-level status.
C15_UniversalSanitizerStrips ==
    \A k \in 1..Len(sanitized) : Stripped(sanitized[k].obj)

\* C15 amended: the same, for every object that has a metadata mapping; an
\* object without one is returned as it came, its status included.
C15_StripsWhenMetadataPresent ==
    \A k \in 1..Len(sanitized) :
      IF Has(heap[1], "metadata") THEN Stripped(sanitized[k].obj)
      ELSE sanitized[k].by = "SanitizeCommon" => sanitized[k].obj = heap[1]

\* C15 witness: the universal sanitizer alone removed server-set fields,
\* ownerReferences, an annotations mapping holding only last-applied, and
\* the status.
C15_Witness ==
    /\ Len(sanitized) = 1
    /\ sanitized[1].by = "SanitizeCommon"
    /\ {"uid", "generation", "ownerReferences", "annotations"}
         \subseteq DOMAIN heap[1].metadata
    /\ DOMAIN heap[1].metadata.annotations = {LastApplied}
    /\ Has(heap[1], "status")
    /\ Stripped(sanitized[1].obj)

\* C16: a second Run with the same target namespace and name leaves the
\* object tree as the first Run left it, for registered and unregistered
\* kinds alike.
C16_RunIdempotent ==
    \A k \in 1..(Len(sanitized) - 1) :
      sanitized[k].by = "Run" /\ sanitized[k + 1].by = "Run"
        => sanitized[k + 1].obj = sanitized[k].obj

\* C16 witness: Run ran twice on a Pod whose token volumes and mounts the
\* first Run removed.
C16_Witness ==
    /\ Len(sanitized) >= 2
    /\ sanitized[1].by = "Run" /\ sanitized[2].by = "Run"
    /\ GetKind(heap[1]) = "Pod"
    /\ Len(heap[1].spec.volumes) > Len(sanitized[1].obj.spec.volumes)
    /\ sanitized[2].warnings # sanitized[1].warnings

\* ------------------------------------------------ batch properties
\* The loop the control is in.
Loop == IF pc = "PlanAll" THEN "PlanAll" ELSE "ApplyAll"

\* C17: once the context is cancelled while an item is in flight, a call is
\* issued and a result is written only for that item of that loop, the
\* result so written carries an error, and no later item is touched.
C17_CancelStopsTheBatch ==
    [][ctx.done /\ (calls' # calls \/ planned' # planned)
         => /\ Loop = ctx.pc
            /\ i = ctx.i
            /\ Len(planned') >= i => planned'[i].Error # ""]_vars

IsSourceCall(c) == c.client = "source"

ExecutedActions == {"created", "skipped", "overwritten"}

\* The result has been through Apply: it carries an executed action or an
\* error.
Settled(r) == r.Error # "" \/ r.Action \in ExecutedActions

ApplyPhase == pc \in {"ApplyAll", "Delete", "Create", "applied"}

\* C18: PlanAll and ApplyAll go through the list in its order, the primary
\* first: result k belongs to ref k, the source saw one fetch per planned ref
\* in list order, no ref is left out once planning is over, ApplyAll has
\* settled exactly the results before its index and touched none after it,
\* and it ends only past the last result, whatever errors it met.
C18_EveryItemOnceInOrder ==
    /\ refs[1] = primary
    /\ Len(planned) <= Len(refs)
    /\ pc # "PlanAll" => Len(planned) = Len(refs)
    /\ \A k \in 1..Len(planned) : planned[k].Source = refs[k]
    /\ LET g == SelectSeq(calls, IsSourceCall) IN
       /\ Len(g) = Len(planned)
       /\ \A k \in 1..Len(g) :
            g[k].key = Key(refs[k].GVR,
                           IF refs[k].Namespaced THEN refs[k].Namespace
                           ELSE "",
                           refs[k].Name)
    /\ ApplyPhase =>
         /\ \A k \in 1..Len(planned) :
              IF k < i THEN Settled(planned[k])
              ELSE /\ planned[k].Action \notin ExecutedActions
                   /\ planned[k].Error \in {"", "fetch"}
         /\ pc = "applied" => i = Len(planned) + 1

\* C18 witness: the run is over, the first item failed and the second one
\* was created all the same.
C18_Witness ==
    /\ pc = "applied"
    /\ Len(planned) > 1
    /\ planned[1].Error # ""
    /\ planned[2].Error = "" /\ planned[2].Action = "created"

\* C19: a finished run whose results carry an error has a non-zero exit
\* status.
C19_ErrorGivesNonZeroExit ==
    exit # <<>> /\ (\E k \in 1..Len(planned) : planned[k].Error # "")
      => exit[1] # 0

\* C20: when another actor has created the object of a planned create, each
\* item aimed at that key issues one create and no more, that create is
\* refused and leaves the error in the result, no delete is issued, and the
\* other actor's object stays in place.
C20_LostRaceLeavesTheOtherObject ==
    \A c \in 1..Len(calls) :
      calls[c].client = "other" =>
        LET key  == calls[c].key
            mine == {k \in 1..Len(planned) :
                       /\ planned[k].Sanitized # 0
                       /\ CreateKey(planned[k]) = key}
            over == {k \in mine : ApplyPhase /\ k < i}
            after == {d \in (c + 1)..Len(calls) : calls[d].key = key}
        IN /\ key \in DOMAIN store[tgtId]
           /\ \E k \in mine :
                store[tgtId][key] = Stub(planned[k].Source.Kind, key.ns,
                                         key.name)
           /\ \A d \in after :
                /\ calls[d].client = "target"
                /\ calls[d].verb = "create"
                /\ ~calls[d].ok
           /\ Cardinality(after) = Cardinality(over)
           /\ \A k \in over : planned[k].Error = "create"

\* C20 witness: the run is over, the target allows creates, and the create
\* of an item was refused because the other actor's object was there.
C20_Witness ==
    /\ pc = "applied"
    /\ "create" \notin denied
    /\ \E c \in 1..Len(calls), k \in 1..Len(planned) :
         /\ calls[c].client = "other"
         /\ planned[k].Sanitized # 0
         /\ CreateKey(planned[k]) = calls[c].key
         /\ planned[k].Error = "create"
         /\ planned[k].Conflicts = <<>>

\* ------------------------------------------------ kind sanitizers
\* The object the k-th recorded call was handed.
InputOf(k) == IF k = 1 THEN heap[1] ELSE sanitized[k - 1].obj

\* The recorded calls of Run on an object of the kind.
RunsOn(kind) ==
    {k \in 1..Len(sanitized) :
       sanitized[k].by = "Run" /\ GetKind(InputOf(k)) = kind}

ControllerUIDs == {"controller-uid", "batch.kubernetes.io/controller-uid"}

LabelsOf(holder) == Field(Field(holder, "metadata", EmptyMap), "labels", EmptyMap)

\* Number of warnings whose message is of the given sort.
CountWarnings(ws, sort) ==
    Cardinality({w \in 1..Len(ws) : ws[w].Message[1] = sort})

Malformed(args) ==
    IF Len(args) = 2 THEN args[1] = <<>> \/ args[2] = <<>>
    ELSE \/ args[1] = <<>>
         \/ "/" \notin {args[1][k] : k \in 1..Len(args[1])}
         \/ args[1][1] = "/"
         \/ args[1][Len(args[1])] = "/"

\* The copy stays in the source cluster and namespace and is not renamed.
SameNamespaceNoRename ==
    /\ ToNamespace \in {"", SourceNamespace}
    /\ ToName = ""
    /\ tgtId = SrcId

\* Complete has returned an error and nothing else has happened.
Rejected ==
    /\ pc = "done" /\ exit = <<1>> /\ cli.err # ""
    /\ ~cli.clients /\ calls = <<>>

\* C22: once Complete has run, a command line with a malformed selector, a
\* same-namespace copy without a new name, or a flag value outside the
\* allowed ones has been rejected with no client built and no call made, and
\* what goes on to the Copier carries one of the three policies.
C22_ValidationRejectsFirst ==
    pc # "Complete" =>
      /\ Malformed(cli.args) \/ SameNamespaceNoRename
           \/ OnConflict \notin {"skip", "warn", "overwrite"}
           \/ cli.Output \notin {"table", "yaml", "json"}
         => Rejected
      /\ pc = "Resolved" => OnConflict \in {"skip", "warn", "overwrite"}

\* ------------------------------------------------ service matching
\* The labels of the pods a workload primary runs, read off the object.
PrimaryPodLabels ==
    LET o == store[SrcId][Key(primary.GVR, primary.Namespace, primary.Name)]
    IN IF primary.Kind = "Pod" THEN o.metadata.labels
       ELSE o.spec.template.metadata.labels

\* Set inclusion: the selector is not empty and each of its keys is a pod
\* label with the same value.
Included(selector, labels) ==
    /\ DOMAIN selector # {}
    /\ \A k \in DOMAIN selector : k \in DOMAIN labels /\ labels[k] = selector[k]

\* C23: once Discover has returned from a workload primary whose Services
\* could be listed, a Service of the namespace is in the result if and only
\* if its selector is included in the pod labels.
C23_ServiceMatchIsSetInclusion ==
    /\ Returned
    /\ PrimaryFetched
    /\ primary.Kind \in {"Deployment", "Pod"}
    /\ <<"list", "services">> \notin srcFail
    => \A key \in DOMAIN store[SrcId] :
         key.gvr = "services" /\ key.ns = primary.Namespace =>
           (<<key.gvr, key.ns, key.name>> \in DiscoveredTriples
              <=> Included(store[SrcId][key].spec.selector, PrimaryPodLabels))

\* ------------------------------------------------ reference conflicts
\* The (resource, name) pairs the sanitized object of result r refers to.
Referenced(r) ==
    LET ls == ReferenceLookups(heap[r.Sanitized])
    IN {ls[k] : k \in 1..Len(ls)}

\* Some get of the key on the target has failed.
GetFailed(key) ==
    \E c \in 1..Len(calls) :
      /\ calls[c].client = "target" /\ calls[c].verb = "get"
      /\ calls[c].key = key /\ ~calls[c].ok

\* The reference conflicts of result r, as the pairs they name.
ReferenceConflicts(r) ==
    LET IsRef(c) == c.Type = TypeReference
        cs == SelectSeq(r.Conflicts, IsRef)
    IN [k \in 1..Len(cs) |-> cs[k].Message]

\* C24: a planned result carries one reference conflict for each distinct
\* ConfigMap, Secret, PVC or ServiceAccount its object refers to whose get
\* in the target namespace failed, none for a name whose get succeeded and
\* none for the ServiceAccount "default", also when the name referred to is
\* a ref of the same plan.
C24_OneConflictPerMissingReference ==
    \A k \in 1..Len(planned) :
      planned[k].Sanitized # 0 =>
        LET rc == ReferenceConflicts(planned[k])
            missing == {p \in Referenced(planned[k]) :
                          GetFailed(Key(p[1], planned[k].TargetNS, p[2]))}
        IN /\ {rc[m] : m \in 1..Len(rc)} = missing
           /\ Len(rc) = Cardinality(missing)
           /\ <<"serviceaccounts", "default">> \notin missing

\* C24 witness: the Deployment, which names the ConfigMap in a volume and in
\* envFrom, was planned together with that ConfigMap; the ConfigMap and the
\* Secret were missing in the target and each gave one conflict.
C24_Witness ==
    /\ Len(planned) = 2
    /\ planned[1].Sanitized # 0
    /\ planned[1].Source.Kind = "Deployment"
    /\ planned[2].Source.Kind = "ConfigMap"
    /\ planned[2].Source.Name = "cfg"
    /\ ReferenceConflicts(planned[1])
         = <<<<"configmaps", "cfg">>, <<"secrets", "tls">>>>
    /\ heap[planned[1].Sanitized].spec.template.spec.serviceAccountName
         = "default"

\* ------------------------------------------------ Service, Ingress, Pod
SpecOf(o) == Field(o, "spec", EmptyMap)

\* Number of entries of the list that carry the key.
CountHas(list, key) ==
    Cardinality({e \in 1..Len(list) : Has(list[e], key)})

\* C25: after Run on a Service a real clusterIP is "" with one warning,
\* clusterIPs is empty unless it is exactly <<"None">>, no port carries a
\* nodePort with one warning per port that did, healthCheckNodePort is
\* absent; the Service with clusterIP 10.0.0.1 and one port with nodePort
\* 31000 yields exactly two warnings.
C25_ServiceSanitized ==
    \A k \in RunsOn("Service") :
      LET in    == SpecOf(InputOf(k))
          out   == SpecOf(sanitized[k].obj)
          ws    == sanitized[k].warnings
          ip    == Field(in, "clusterIP", "")
          ports == Field(in, "ports", <<>>)
      IN /\ IF ip \notin {"", "None"}
            THEN out.clusterIP = "" /\ CountWarnings(ws, "reset clusterIP") = 1
            ELSE /\ CountWarnings(ws, "reset clusterIP") = 0
                 /\ Field(out, "clusterIP", "") = ip
         /\ Has(in, "clusterIPs") =>
              out.clusterIPs = IF in.clusterIPs = <<"None">>
                               THEN <<"None">> ELSE <<>>
         /\ CountHas(Field(out, "ports", <<>>), "nodePort") = 0
         /\ CountWarnings(ws, "removed nodePort") = CountHas(ports, "nodePort")
         /\ ~Has(out, "healthCheckNodePort")
         /\ (ip = "10.0.0.1" /\ Len(ports) = 1 /\ CountHas(ports, "nodePort") = 1
             /\ DOMAIN in = {"clusterIP", "ports"})
              => Len(ws) = 2

\* C25 witness: Run ran on the Service with clusterIP 10.0.0.1 and nodePort
\* 31000; the address is reset, the port is kept without its nodePort and
\* there are two warnings.
C25_Witness ==
    /\ 1 \in RunsOn("Service")
    /\ heap[1].spec.clusterIP = "10.0.0.1"
    /\ heap[1].spec.ports = <<[port |-> 80, nodePort |-> 31000]>>
    /\ sanitized[1].obj.spec.clusterIP = ""
    /\ sanitized[1].obj.spec.ports = <<[port |-> 80]>>
    /\ Len(sanitized[1].warnings) = 2

\* The hosts of every spec.tls entry, in order.
TLSHosts(sp) ==
    LET tls == Field(sp, "tls", <<>>)
    IN Flatten([k \in 1..Len(tls) |-> Field(tls[k], "hosts", <<>>)])

\* The rules that name a host.
HostRules(sp) ==
    LET rules == Field(sp, "rules", <<>>)
    IN {k \in 1..Len(rules) : Field(rules[k], "host", "") # ""}

\* C26: Run on an Ingress emits one warning per non-empty rule host and one
\* per TLS hostname, with or without a spec.rules list, and leaves spec as
\* it was.
C26_IngressWarnsPerHost ==
    \A k \in RunsOn("Ingress") :
      LET in == SpecOf(InputOf(k))
          ws == sanitized[k].warnings
      IN /\ SpecOf(sanitized[k].obj) = in
         /\ CountWarnings(ws, "hardcoded host") = Cardinality(HostRules(in))
         /\ CountWarnings(ws, "TLS host") = Len(TLSHosts(in))

\* The names of the volumes admission injected.
Injected(sp) ==
    LET vols == Field(sp, "volumes", <<>>)
    IN {Field(vols[v], "name", "") : v \in
          {v \in 1..Len(vols) : IsKubeAPIAccess(Field(vols[v], "name", ""))}}

\* The mounts of every container under field are the input's mounts without
\* those of the injected volumes, in order.
MountsCleaned(in, out, field) ==
    LET cs == Field(in, field, <<>>)
        os == Field(out, field, <<>>)
        kept(m) == Field(m, "name", "") \notin Injected(in)
    IN /\ Len(os) = Len(cs)
       /\ \A c \in 1..Len(cs) :
            /\ Field(os[c], "volumeMounts", <<>>)
                 = SelectSeq(Field(cs[c], "volumeMounts", <<>>), kept)
            /\ Del(os[c], "volumeMounts") = Del(cs[c], "volumeMounts")

\* C27: after Run on a Pod no volume is an injected kube-api-access- volume,
\* no mount of a container or init container names one, every other volume
\* and mount is kept in order, and there is one warning per removed volume
\* plus one for a removed nodeName.
C27_PodTokenVolumesRemoved ==
    \A k \in RunsOn("Pod") :
      LET in   == SpecOf(InputOf(k))
          out  == SpecOf(sanitized[k].obj)
          ws   == sanitized[k].warnings
          vols == Field(in, "volumes", <<>>)
          kept(v) == Field(v, "name", "") \notin Injected(in)
          node == IF Field(in, "nodeName", "") # "" THEN 1 ELSE 0
      IN /\ Field(out, "volumes", <<>>) = SelectSeq(vols, kept)
         /\ Injected(out) = {}
         /\ MountsCleaned(in, out, "containers")
         /\ MountsCleaned(in, out, "initContainers")
         /\ CountWarnings(ws, "removed auto-injected volume")
              = Len(vols) - Len(SelectSeq(vols, kept))
         /\ CountWarnings(ws, "removed nodeName") = node
         /\ Len(ws) = Len(vols) - Len(SelectSeq(vols, kept)) + node

\* C27 witness: Run ran on a scheduled Pod with two injected volumes mounted
\* in a container and an init container; the ConfigMap volume and its mount
\* are what is left, with three warnings.
C27_Witness ==
    /\ 1 \in RunsOn("Pod")
    /\ Cardinality(Injected(heap[1].spec)) = 2
    /\ heap[1].spec.nodeName = "node-1"
    /\ sanitized[1].obj.spec.volumes
         = <<[name |-> "conf", configMap |-> [name |-> "cfg"] ]>>
    /\ sanitized[1].obj.spec.containers[1].volumeMounts = <<[name |-> "conf"]>>
    /\ sanitized[1].obj.spec.initContainers[1].volumeMounts = <<>>
    /\ Len(sanitized[1].warnings) = 3

\* ------------------------------------------- source objects and scopes
\* Where Plan fetched the object of the ref from.
SourceKey(ref) == Key(ref.GVR, FetchNS(ref), ref.Name)

Looked(key) ==
    \E c \in 1..Len(calls) :
      calls[c].client = "target" /\ calls[c].verb = "get" /\ calls[c].key = key

\* C29: for every planned ref the key Plan looked up is the key Apply
\* deletes and creates, and while the plan stands a planned create names a
\* key the target does not hold.
C29_PlanAndApplyAddressTheSameKey ==
    \A k \in 1..Len(planned) :
      planned[k].Sanitized # 0 =>
        /\ Looked(CreateKey(planned[k]))
        /\ DeleteKey(planned[k]) = CreateKey(planned[k])
        /\ (Planning /\ planned[k].Action = "create" /\ "get" \notin denied)
             => CreateKey(planned[k]) \notin DOMAIN store[tgtId]

\* The resources the API serves inside a namespace.
NamespacedResources ==
    {"deployments", "pods", "configmaps", "secrets", "persistentvolumeclaims",
     "serviceaccounts", "services", "ingresses", "horizontalpodautoscalers"}

\* The refs Run hands to the Copier: the primary, then what Discover found.
BuiltRefs == <<primary>> \o discovered

\* C30: a built ref of a namespaced kind is fetched from its own namespace
\* and created in the target namespace; only a cluster-scoped kind has the
\* namespace forced empty.
C30_BuiltRefsKeepTheirScope ==
    \A k \in 1..Len(BuiltRefs) :
      LET r == BuiltRefs[k]
          result == [Source |-> r, TargetNS |-> ToNamespace]
      IN IF r.GVR \in NamespacedResources
         THEN FetchNS(r) = r.Namespace /\ ApplyNS(result) = ToNamespace
         ELSE FetchNS(r) = "" /\ ApplyNS(result) = ""

====
